---------------------------- MODULE Spec2Model ----------------------------
(***************************************************************************)
(* A model of the scholarship-ball funding agent's core tools:             *)
(*   grant_search, donor_prospect, deposit_tracker  (tools_no_code.py)     *)
(*   generate_outreach_letter, dashboard_summary    (tools_no_code_extra.py)*)
(*   the HTTP route of the tracker                  (web_main.py)          *)
(*                                                                         *)
(* Representation of Python values                                         *)
(*   str that is inspected  : a sequence of one-character strings          *)
(*   str that is only echoed: a TLA+ string                                *)
(*   f-string               : the tuple of its parts                       *)
(*   None / optional value  : {} for None, {v} for the value v             *)
(*   dict                   : a function from key strings to values; a     *)
(*                            missing key is absent from its DOMAIN        *)
(*   dict and list objects  : live in the heaps `dicts` and `lists`        *)
(*                            (sequences indexed by address), so aliasing  *)
(*                            and in-place mutation are expressible        *)
(*   date                   : its proleptic Gregorian ordinal              *)
(*   float rounded to 2 dp  : the integer number of hundredths             *)
(***************************************************************************)
EXTENDS Integers, Sequences, FiniteSets, TLC

VARIABLES
    now,      \* datetime.now(): [day |-> ordinal of today, sec |-> second of the day]
    dicts,    \* heap of dict objects, indexed by address
    lists,    \* heap of list objects (sequences of dict addresses), indexed by address
    pc,       \* "idle" before the call of a core tool, "imported" once
              \* tools_no_code_extra is loaded, "returned" after the call,
              \* "raised" when an exception ended it
    call,     \* the call made: tool name, arguments, and the heaps as the caller built them
    ret,      \* the value returned by the call
    log,      \* the calls made so far, oldest first, with their results
    CACHE,    \* the module-level dict _CACHE of tools_no_code_extra
    threads,  \* concurrent callers: each one's call in progress and its locals
    history   \* the conversation history of the command-line loop

vars == <<now, dicts, lists, pc, call, ret, log, CACHE, threads, history>>

---------------------------------------------------------------------------
(* Bounds of the model *)

MaxResults == 3     \* largest max_results passed to grant_search
MaxDonors == 3      \* longest donor list passed to donor_prospect
MaxTopN == 3        \* largest top_n passed to donor_prospect
MaxOpps == 4        \* longest opportunity list passed to dashboard_summary
MaxProspects == 4   \* longest donor-prospect list passed to dashboard_summary
MaxCalls == 2       \* longest sequence of award tracker calls
MaxSession == 3     \* longest sequence of core calls of one session
MaxCacheCalls == 3  \* longest sequence of cache_tool calls
MaxCallers == 2     \* number of callers that call core tools concurrently
MaxInputs == 3      \* longest sequence of lines typed at the CLI prompt

---------------------------------------------------------------------------
(* Python built-ins used by the tools *)

None == {}
Some(v) == {v}
TheValue(o) == CHOOSE v \in o : TRUE

\* dict.get(key, default)
Get(d, key, default) == IF key \in DOMAIN d THEN d[key] ELSE default

\* dict.get(key): None when the key is missing
GetOpt(d, key) == IF key \in DOMAIN d THEN Some(d[key]) ELSE None

Max2(a, b) == IF a >= b THEN a ELSE b

Min2(a, b) == IF a <= b THEN a ELSE b

Range(s) == {s[i] : i \in DOMAIN s}

\* seq[:n] for n >= 0
Take(s, n) == SubSeq(s, 1, Min2(n, Len(s)))

Reverse(s) == [i \in 1..Len(s) |-> s[Len(s) + 1 - i]]

UpperLetters ==
    <<"A", "B", "C", "D", "E", "F", "G", "H", "I", "J", "K", "L", "M",
      "N", "O", "P", "Q", "R", "S", "T", "U", "V", "W", "X", "Y", "Z">>

LowerLetters ==
    <<"a", "b", "c", "d", "e", "f", "g", "h", "i", "j", "k", "l", "m",
      "n", "o", "p", "q", "r", "s", "t", "u", "v", "w", "x", "y", "z">>

\* str.lower() of one character
LowerChar(c) ==
    IF c \in Range(UpperLetters)
    THEN LowerLetters[CHOOSE i \in 1..26 : UpperLetters[i] = c]
    ELSE c

\* str.lower()
Lower(s) == [i \in 1..Len(s) |-> LowerChar(s[i])]

\* `sub in s` for strings
IsSubstring(sub, s) ==
    \E k \in 0..(Len(s) - Len(sub)) : SubSeq(s, k + 1, k + Len(sub)) = sub

\* s < t for strings (lexicographic by character code); used on date strings,
\* whose characters are the digits and "-" ("-" sorts before every digit)
CharCode(c) ==
    CASE c = "-" -> 45 [] c = "0" -> 48 [] c = "1" -> 49 [] c = "2" -> 50
      [] c = "3" -> 51 [] c = "4" -> 52 [] c = "5" -> 53 [] c = "6" -> 54
      [] c = "7" -> 55 [] c = "8" -> 56 [] c = "9" -> 57
      [] c = "a" -> 97 [] c = "b" -> 98 [] c = "d" -> 100
      [] OTHER -> 120

RECURSIVE StrLess(_, _)
StrLess(s, t) ==
    IF t = <<>> THEN FALSE
    ELSE IF s = <<>> THEN TRUE
    ELSE IF CharCode(Head(s)) # CharCode(Head(t)) THEN CharCode(Head(s)) < CharCode(Head(t))
    ELSE StrLess(Tail(s), Tail(t))

---------------------------------------------------------------------------
(* datetime: dates, ISO strings, differences in whole days *)

Digits == <<"0", "1", "2", "3", "4", "5", "6", "7", "8", "9">>

IsDigit(c) == c \in Range(Digits)

DigitVal(c) == (CHOOSE i \in 1..10 : Digits[i] = c) - 1

IsLeap(y) == y % 4 = 0 /\ (y % 100 # 0 \/ y % 400 = 0)

DaysInMonth(y, m) ==
    IF m = 2 THEN (IF IsLeap(y) THEN 29 ELSE 28)
    ELSE IF m \in {4, 6, 9, 11} THEN 30 ELSE 31

RECURSIVE DaysBeforeMonth(_, _)
DaysBeforeMonth(y, m) ==
    IF m = 1 THEN 0 ELSE DaysBeforeMonth(y, m - 1) + DaysInMonth(y, m - 1)

DaysBeforeYear(y) ==
    (y - 1) * 365 + ((y - 1) \div 4) - ((y - 1) \div 100) + ((y - 1) \div 400)

\* date(y, m, d).toordinal()
Ymd2Ord(y, m, d) == DaysBeforeYear(y) + DaysBeforeMonth(y, m) + d

\* date.fromordinal(n) as <<year, month, day>>
Ord2Ymd(n) ==
    LET y0 == ((n - 1) * 400) \div 146097 + 1
        y  == IF DaysBeforeYear(y0 + 1) < n THEN y0 + 1
              ELSE IF DaysBeforeYear(y0) >= n THEN y0 - 1
              ELSE y0
        r  == n - DaysBeforeYear(y)
        m  == CHOOSE k \in 1..12 :
                  /\ DaysBeforeMonth(y, k) < r
                  /\ r <= DaysBeforeMonth(y, k) + DaysInMonth(y, k)
    IN  <<y, m, r - DaysBeforeMonth(y, m)>>

\* "%04d" / "%02d"
Pad4(n) ==
    <<Digits[((n \div 1000) % 10) + 1], Digits[((n \div 100) % 10) + 1],
      Digits[((n \div 10) % 10) + 1], Digits[(n % 10) + 1]>>

Pad2(n) == <<Digits[((n \div 10) % 10) + 1], Digits[(n % 10) + 1]>>

\* date.isoformat(): "YYYY-MM-DD"
IsoFormat(ord) ==
    LET ymd == Ord2Ymd(ord)
    IN  Pad4(ymd[1]) \o <<"-">> \o Pad2(ymd[2]) \o <<"-">> \o Pad2(ymd[3])

\* datetime.fromisoformat(s) for a date-only string: {ordinal} (the datetime is
\* that day's midnight), or {} when it raises ValueError
FromIsoFormat(s) ==
    IF /\ Len(s) = 10
       /\ s[5] = "-" /\ s[8] = "-"
       /\ \A i \in {1, 2, 3, 4, 6, 7, 9, 10} : IsDigit(s[i])
    THEN LET y == DigitVal(s[1]) * 1000 + DigitVal(s[2]) * 100
                  + DigitVal(s[3]) * 10 + DigitVal(s[4])
             m == DigitVal(s[6]) * 10 + DigitVal(s[7])
             d == DigitVal(s[9]) * 10 + DigitVal(s[10])
         IN  IF y >= 1 /\ m \in 1..12 /\ d >= 1 /\ d <= DaysInMonth(y, m)
             THEN {Ymd2Ord(y, m, d)}
             ELSE {}
    ELSE {}

\* (t - datetime(midnight of day `ord`)).days: timedelta normalises to whole
\* days rounded towards minus infinity plus a non-negative remainder
DaysSince(t, ord) == ((t.day - ord) * 86400 + t.sec) \div 86400

---------------------------------------------------------------------------
(* The tool decorator and the loading of tools_no_code_extra.py *)

\* the fallback `tool(func=None, **kwargs)` used when LangChain is not installed:
\* func is None for a call with keyword arguments only, otherwise the positional
\* argument; it returns the decorator _wrap for None and func itself otherwise
tool(func) == IF func = None THEN "_wrap" ELSE TheValue(func)

\* what `@tool(name, description=...)` above a def binds the name to:
\* tool(name, description=...)(f). LangChain's tool returns a decorator that
\* makes a StructuredTool; the fallback returns the str `name`, and calling a
\* str raises TypeError
DecoratedNamed(langchain, name) ==
    IF langchain THEN "StructuredTool"
    ELSE IF tool(Some(name)) = "_wrap" THEN "function" ELSE "TypeError"

\* import tools_no_code_extra: the module body runs top to bottom and ends at
\* the first exception; its first decorated definition is
\* generate_outreach_letter
import_tools_no_code_extra(langchain) ==
    IF DecoratedNamed(langchain, "generate_outreach_letter") = "TypeError"
    THEN "TypeError"
    ELSE "module"

---------------------------------------------------------------------------
(* grant_search (tools_no_code.py) *)

\* ", ".join(parts): the parts with ", " between them
RECURSIVE Join(_)
Join(parts) ==
    IF Len(parts) <= 1 THEN parts
    ELSE <<Head(parts), ", ">> \o Join(Tail(parts))

\* mutant of Opportunity: the deadline offset grows by one day per record where
\* the award sizes grow, and the award sizes by 15
Opportunity_SwappedSteps(i, keywords_str, region, t) ==
    [funder_name            |-> <<"Example Foundation ", i + 1>>,
     mission_focus          |-> <<"Focus on: ">> \o keywords_str,
     award_size_min         |-> 5000 + i * 1000,
     award_size_max         |-> 25000 + i * 2000,
     deadline               |-> IsoFormat(t.day + (90 + i) * 15),
     geographic_restriction |-> region,
     eligibility            |-> "501(c)(3) non-profit organisation supporting women scholars",
     url                    |-> <<"https://examplefoundation.org/apply/", i + 1>>]

\* the record appended in iteration i of the loop (i = 0, 1, ...)
Opportunity(i, keywords_str, region, t) ==
    [funder_name            |-> <<"Example Foundation ", i + 1>>,
     mission_focus          |-> <<"Focus on: ">> \o keywords_str,
     award_size_min         |-> 5000 + i * 1000,
     award_size_max         |-> 25000 + i * 2000,
     deadline               |-> IsoFormat(t.day + 90 + i * 15),
     geographic_restriction |-> region,
     eligibility            |-> "501(c)(3) non-profit organisation supporting women scholars",
     url                    |-> <<"https://examplefoundation.org/apply/", i + 1>>]

\* mutants of NumResults: the count not floored at 1; one record too many
NumResults_NoFloor(max_results) == max_results

NumResults_OneMore(max_results) == Max2(1, max_results) + 1

\* num = max(1, int(max_results))
NumResults(max_results) == Max2(1, max_results)

\* mutant of grant_search: the funders are numbered on from the records made by
\* earlier calls, as with a module-level counter
grant_search_Numbered(hd, hl, mission_keywords, region, max_results, t) ==
    LET keywords_str == IF mission_keywords # <<>> THEN Join(mission_keywords)
                        ELSE <<"general mission alignment">>
        num == NumResults(max_results)
        results == [k \in 1..num |->
                       [Opportunity(k - 1, keywords_str, region, t)
                            EXCEPT !.funder_name = <<"Example Foundation ", Len(hd) + k>>]]
    IN  [dicts |-> hd \o results,
         lists |-> Append(hl, [k \in 1..num |-> Len(hd) + k]),
         ret   |-> Len(hl) + 1]

\* grant_search(mission_keywords, region, max_results) run on the heaps hd, hl at
\* time t: the heaps after the call and the address of the returned list
grant_search(hd, hl, mission_keywords, region, max_results, t) ==
    LET keywords_str == IF mission_keywords # <<>> THEN Join(mission_keywords)
                        ELSE <<"general mission alignment">>
        num == NumResults(max_results)
        results == [k \in 1..num |-> Opportunity(k - 1, keywords_str, region, t)]
    IN  [dicts |-> hd \o results,
         lists |-> Append(hl, [k \in 1..num |-> Len(hd) + k]),
         ret   |-> Len(hl) + 1]

---------------------------------------------------------------------------
(* donor_prospect (tools_no_code.py) *)

\* `if x:` for an optional list or string: neither None nor empty
Truthy(o) == o # None /\ TheValue(o) # <<>>

\* d[key] = value on a dict
DictSet(d, key, value) ==
    [k \in DOMAIN d \cup {key} |-> IF k = key THEN value ELSE d[k]]

\* the quotient n / d (d > 0) rounded to the nearest integer, ties to even
RoundHalfEven(n, d) ==
    LET q == n \div d
        r == n % d
    IN  IF 2 * r < d THEN q
        ELSE IF 2 * r > d THEN q + 1
        ELSE IF q % 2 = 0 THEN q ELSE q + 1

\* mutant of RecencyBonus: days_ago not floored at 1; a gift dated today then
\* divides by zero (caught: 0.0) and a future one gets a negative bonus
RecencyBonus_NoFloor(d, t) ==
    LET date_str == GetOpt(d, "last_gift_date")
    IN  IF Truthy(date_str)
        THEN LET parsed == FromIsoFormat(TheValue(date_str))
                 days_ago == DaysSince(t, TheValue(parsed))
             IN  IF parsed = {} \/ days_ago = 0 THEN <<0, 1>>
                 ELSE IF days_ago < 0 THEN <<-1000, -days_ago>>
                 ELSE <<1000, days_ago>>
        ELSE <<0, 1>>

\* the try block: recency_bonus as the fraction <<numerator, denominator>>
RecencyBonus(d, t) ==
    LET date_str == GetOpt(d, "last_gift_date")
    IN  IF Truthy(date_str)
        THEN LET parsed == FromIsoFormat(TheValue(date_str))
             IN  IF parsed = {} THEN <<0, 1>>                       \* except: 0.0
                 ELSE <<1000, Max2(1, DaysSince(t, TheValue(parsed)))>>
        ELSE <<0, 1>>

\* round(base * 0.5 + recency_bonus, 2), in hundredths
PotentialScore(d, t) ==
    LET base  == Get(d, "last_gift_amount", 0)
        bonus == RecencyBonus(d, t)
    IN  RoundHalfEven(50 * base * bonus[2] + 100 * bonus[1], bonus[2])

\* list.sort: the list sorted ascending, le[x, y] telling whether x's key is <=
\* y's; elements with equal keys stay in their order in s (the sort is stable)
RECURSIVE InsertAsc(_, _, _)
InsertAsc(sorted, x, le) ==
    IF sorted = <<>> THEN <<x>>
    ELSE IF le[Head(sorted), x]
         THEN <<Head(sorted)>> \o InsertAsc(Tail(sorted), x, le)
         ELSE <<x>> \o sorted

RECURSIVE SortAsc(_, _)
SortAsc(s, le) ==
    IF s = <<>> THEN <<>>
    ELSE InsertAsc(SortAsc(SubSeq(s, 1, Len(s) - 1), le), s[Len(s)], le)

\* mutant of SortedReverse: sort ascending, then reverse (equal keys end up in
\* reverse input order)
SortedReverse_ThenReverse(s, le) == Reverse(SortAsc(s, le))

\* sorted(s, key=..., reverse=True): reverse, sort stably, reverse back
SortedReverse(s, le) == Reverse(SortAsc(Reverse(s), le))

\* mutant of FilterDonors: the donor's own industry and region are compared as
\* written, not lower-cased
FilterDonors_CaseSensitive(hd, hl, past_donors, industry_filter, region) ==
    LET inds == {Lower(s) : s \in Range(TheValue(industry_filter))}
        KeepIndustry(a) == Get(hd[a], "industry", <<>>) \in inds
        filtered1 == IF Truthy(industry_filter)
                     THEN SelectSeq(hl[past_donors], KeepIndustry)
                     ELSE hl[past_donors]
        KeepRegion(a) ==
            IsSubstring(Lower(TheValue(region)), Get(hd[a], "region", <<>>))
    IN  IF Truthy(region) THEN SelectSeq(filtered1, KeepRegion) ELSE filtered1

\* the two filters: the donors of the list at past_donors that are kept
FilterDonors(hd, hl, past_donors, industry_filter, region) ==
    LET inds == {Lower(s) : s \in Range(TheValue(industry_filter))}
        KeepIndustry(a) == Lower(Get(hd[a], "industry", <<>>)) \in inds
        filtered1 == IF Truthy(industry_filter)
                     THEN SelectSeq(hl[past_donors], KeepIndustry)
                     ELSE hl[past_donors]
        KeepRegion(a) ==
            IsSubstring(Lower(TheValue(region)), Lower(Get(hd[a], "region", <<>>)))
    IN  IF Truthy(region) THEN SelectSeq(filtered1, KeepRegion) ELSE filtered1

\* mutant of ScoreDonors: item = d, no copy; the score is written into the
\* caller's record and scored lists the caller's records
ScoreDonors_InPlace(hd, filtered, t) ==
    [dicts |-> [a \in 1..Len(hd) |->
                   IF a \in Range(filtered)
                   THEN DictSet(hd[a], "potential_score", PotentialScore(hd[a], t))
                   ELSE hd[a]],
     scored |-> filtered]

\* the scoring loop: item = dict(d) is a new dict at a fresh address, which gets
\* the key potential_score; scored lists the new dicts
ScoreDonors(hd, filtered, t) ==
    LET items == [k \in 1..Len(filtered) |->
                     DictSet(hd[filtered[k]], "potential_score",
                             PotentialScore(hd[filtered[k]], t))]
    IN  [dicts |-> hd \o items, scored |-> [k \in 1..Len(filtered) |-> Len(hd) + k]]

\* sorted(scored, key=lambda x: x["potential_score"], reverse=True)
SortByScore(hd, scored) ==
    SortedReverse(scored,
        [a \in Range(scored), b \in Range(scored) |->
            hd[a]["potential_score"] <= hd[b]["potential_score"]])

\* scored_sorted[: max(0, int(top_n))]
TopSlice(scored_sorted, top_n) == Take(scored_sorted, Max2(0, top_n))

\* donor_prospect(past_donors, industry_filter, region, top_n) run on the heaps hd,
\* hl at time t; past_donors is the address of the caller's list
donor_prospect(hd, hl, past_donors, industry_filter, region, top_n, t) ==
    LET filtered == FilterDonors(hd, hl, past_donors, industry_filter, region)
        s        == ScoreDonors(hd, filtered, t)
        scored_sorted == SortByScore(s.dicts, s.scored)
    IN  [dicts |-> s.dicts,
         lists |-> Append(hl, TopSlice(scored_sorted, top_n)),
         ret   |-> Len(hl) + 1]

---------------------------------------------------------------------------
(* deposit_tracker (tools_no_code.py) and its HTTP route (web_main.py) *)

\* (details or {}).get(key): None when details is None or empty or lacks the key
DetailsGet(details, key) ==
    IF details = None THEN None ELSE GetOpt(TheValue(details), key)

\* mutant of deposit_tracker: a ledger; recording a deposit for an award that
\* was registered before returns the registered amount as well
deposit_tracker_WithLedger(award_id, action, details) ==
    IF action = "record_deposit"
    THEN IF \E i \in DOMAIN log :
                log[i].award_id = award_id /\ log[i].action = "register_award"
         THEN LET i == CHOOSE i \in DOMAIN log :
                          log[i].award_id = award_id /\ log[i].action = "register_award"
              IN  [award_id |-> award_id, status |-> "Deposit Recorded",
                   amount_awarded |-> log[i].result.amount_awarded,
                   deposit_amount |-> DetailsGet(details, "deposit_amount")]
         ELSE [award_id |-> award_id, status |-> "Deposit Recorded",
               deposit_amount |-> DetailsGet(details, "deposit_amount")]
    ELSE IF action = "register_award"
    THEN [award_id |-> award_id, status |-> "Registered",
          amount_awarded |-> DetailsGet(details, "amount_awarded")]
    ELSE IF action = "allocate_funds"
    THEN [award_id |-> award_id, status |-> "Funds Allocated",
          allocation_details |-> DetailsGet(details, "allocation_details")]
    ELSE IF action = "report_outcome"
    THEN [award_id |-> award_id, status |-> "Report Submitted",
          outcome_details |-> DetailsGet(details, "outcome_details")]
    ELSE [award_id |-> award_id, status |-> "Unknown action", details |-> details]

\* mutant of deposit_tracker: the deposit branch echoes amount_awarded
deposit_tracker_WrongField(award_id, action, details) ==
    IF action = "register_award"
    THEN [award_id |-> award_id, status |-> "Registered",
          amount_awarded |-> DetailsGet(details, "amount_awarded")]
    ELSE IF action = "record_deposit"
    THEN [award_id |-> award_id, status |-> "Deposit Recorded",
          deposit_amount |-> DetailsGet(details, "amount_awarded")]
    ELSE IF action = "allocate_funds"
    THEN [award_id |-> award_id, status |-> "Funds Allocated",
          allocation_details |-> DetailsGet(details, "allocation_details")]
    ELSE IF action = "report_outcome"
    THEN [award_id |-> award_id, status |-> "Report Submitted",
          outcome_details |-> DetailsGet(details, "outcome_details")]
    ELSE [award_id |-> award_id, status |-> "Unknown action", details |-> details]

\* mutant of deposit_tracker: the fallback echoes `details or {}`, and the
\* action is matched without regard to case
deposit_tracker_LooseFallback(award_id, action, details) ==
    IF action \in {"register_award", "Register_Award"}
    THEN [award_id |-> award_id, status |-> "Registered",
          amount_awarded |-> DetailsGet(details, "amount_awarded")]
    ELSE IF action = "record_deposit"
    THEN [award_id |-> award_id, status |-> "Deposit Recorded",
          deposit_amount |-> DetailsGet(details, "deposit_amount")]
    ELSE IF action = "allocate_funds"
    THEN [award_id |-> award_id, status |-> "Funds Allocated",
          allocation_details |-> DetailsGet(details, "allocation_details")]
    ELSE IF action = "report_outcome"
    THEN [award_id |-> award_id, status |-> "Report Submitted",
          outcome_details |-> DetailsGet(details, "outcome_details")]
    ELSE [award_id |-> award_id, status |-> "Unknown action",
          details |-> IF details = None THEN Some(<<>>) ELSE details]

\* deposit_tracker(award_id, action, details): the returned dict; details is None
\* or {a dict}
deposit_tracker(award_id, action, details) ==
    IF action = "register_award"
    THEN [award_id |-> award_id, status |-> "Registered",
          amount_awarded |-> DetailsGet(details, "amount_awarded")]
    ELSE IF action = "record_deposit"
    THEN [award_id |-> award_id, status |-> "Deposit Recorded",
          deposit_amount |-> DetailsGet(details, "deposit_amount")]
    ELSE IF action = "allocate_funds"
    THEN [award_id |-> award_id, status |-> "Funds Allocated",
          allocation_details |-> DetailsGet(details, "allocation_details")]
    ELSE IF action = "report_outcome"
    THEN [award_id |-> award_id, status |-> "Report Submitted",
          outcome_details |-> DetailsGet(details, "outcome_details")]
    ELSE [award_id |-> award_id, status |-> "Unknown action", details |-> details]

\* POST /tools/deposit_tracker: req is the parsed body (DepositActionRequest),
\* whose details default to None
api_deposit_tracker(req) ==
    deposit_tracker(req.award_id, req.action,
                    IF "details" \in DOMAIN req THEN req.details ELSE None)

---------------------------------------------------------------------------
(* generate_outreach_letter (tools_no_code_extra.py) *)

\* a call of a tool body: the value it returns, or the exception it raises
Return(v) == [ok |-> TRUE, ret |-> v]

Raise(e) == [ok |-> FALSE, ret |-> e]

\* format(n, ",") for an int: decimal digits in groups of three
Pad3(n) == <<Digits[((n \div 100) % 10) + 1]>> \o Pad2(n)

RECURSIVE GroupDigits(_)
GroupDigits(n) ==
    IF n < 10 THEN <<Digits[n + 1]>>
    ELSE IF n < 100 THEN Pad2(n)
    ELSE IF n < 1000 THEN Pad3(n)
    ELSE GroupDigits(n \div 1000) \o <<",">> \o Pad3(n % 1000)

FormatComma(n) == IF n < 0 THEN <<"-">> \o GroupDigits(-n) ELSE GroupDigits(n)

\* the letter as the tuple of the parts of its f-string
Letter(name, mission_statement, sponsorship_tier, event_name, industry, last_gift, region) ==
    <<"Dear ", name, ",\n\n",
      "As part of our mission ", mission_statement,
      ", we are pleased to invite you to join us as a ", sponsorship_tier,
      " for the ", event_name,
      ". Your leadership in the ", industry,
      " sector, and generous past support of $", FormatComma(last_gift),
      " in ", region,
      ", make you an ideal partner in helping us empower undergraduate women in our community.\n\n",
      "By sponsoring this event, you'll be recognised as a leader committed to education and women's leadership, receive event benefits (table for 10, logo placement, special acknowledgement), and most importantly - help us award scholarships that transform lives.\n\n",
      "We hope you will join us and look forward to discussing this opportunity with you. Please let us know how you'd like to proceed.\n\n",
      "Warm regards,\n", "[Your Sorority Name]\n", "[Contact details]">>

\* mutant of generate_outreach_letter: region = prospect["region"], a KeyError
\* when the key is missing
generate_outreach_letter_RegionRequired(prospect, mission_statement, event_name, sponsorship_tier) ==
    IF "region" \notin DOMAIN prospect THEN Raise("KeyError")
    ELSE Return(Letter(Get(prospect, "name", "Valued Supporter"), mission_statement,
                       sponsorship_tier, event_name, Get(prospect, "industry", <<>>),
                       Get(prospect, "last_gift_amount", 0), prospect["region"]))

\* generate_outreach_letter(prospect, mission_statement, event_name,
\* sponsorship_tier); last_gift_amount is an int where present
generate_outreach_letter(prospect, mission_statement, event_name, sponsorship_tier) ==
    LET name      == Get(prospect, "name", "Valued Supporter")
        industry  == Get(prospect, "industry", <<>>)
        last_gift == Get(prospect, "last_gift_amount", 0)
        region    == Get(prospect, "region", <<>>)
    IN  Return(Letter(name, mission_statement, sponsorship_tier, event_name,
                      industry, last_gift, region))

---------------------------------------------------------------------------
(* dashboard_summary (tools_no_code_extra.py) *)

\* mutant of SortByDeadline: an opportunity without a deadline sorts after every
\* dated one (its key is "9")
SortByDeadline_MissingLast(hd, opps) ==
    SortAsc(opps,
        [a \in Range(opps), b \in Range(opps) |->
            ~StrLess(Get(hd[b], "deadline", <<"9">>), Get(hd[a], "deadline", <<"9">>))])

\* sorted(opportunities, key=lambda x: x.get("deadline", ""))
SortByDeadline(hd, opps) ==
    SortAsc(opps,
        [a \in Range(opps), b \in Range(opps) |->
            ~StrLess(Get(hd[b], "deadline", <<>>), Get(hd[a], "deadline", <<>>))])

\* mutant of Gap: a surplus is shown as no gap
Gap_Clamped(target, projected) == Max2(0, target - projected)

\* target - projected, the number formatted into the gap line
Gap(target, projected) == target - projected

OpportunityLine(opp) ==
    <<"   - ", GetOpt(opp, "funder_name"), " (Deadline: ", GetOpt(opp, "deadline"),
      ", Fit Score: ", GetOpt(opp, "fit_score"), ")">>

ProspectLine(p) ==
    <<"   - ", GetOpt(p, "name"), " (Industry: ", GetOpt(p, "industry"),
      ", Last Gift: $", GetOpt(p, "last_gift_amount"),
      ", Score: ", GetOpt(p, "potential_score"), ")">>

\* dashboard_summary(opportunities, donor_prospects, event_projection) run on the
\* heaps hd, hl; the arguments are addresses of the caller's two lists and dict.
\* ret is the summary text as the sequence of its lines, each the tuple of its
\* parts (<<>> is an empty line; the bullet and emoji characters are left out).
dashboard_summary(hd, hl, opportunities, donor_prospects, event_projection) ==
    LET opp_count      == Len(hl[opportunities])
        next_deadlines == Take(SortByDeadline(hd, hl[opportunities]), 3)
        top_prospects  == Take(hl[donor_prospects], 3)
        target         == Get(hd[event_projection], "target_revenue", 0)
        projected      == Get(hd[event_projection], "projected_revenue", 0)
    IN  [dicts |-> hd,
         lists |-> hl,
         ret   |->
            << <<"Funding Pipeline Summary:">>,
               <<>>,
               <<"Opportunities in pipeline: ", opp_count>> >>
            \o (IF next_deadlines # <<>>
                THEN << <<"Next upcoming deadlines:">> >>
                     \o [k \in 1..Len(next_deadlines) |->
                            OpportunityLine(hd[next_deadlines[k]])]
                ELSE <<>>)
            \o << <<>>, <<"Top donor/sponsor prospects:">> >>
            \o [k \in 1..Len(top_prospects) |-> ProspectLine(hd[top_prospects[k]])]
            \o << <<>>,
                  <<"Event Revenue Projection:">>,
                  <<"   Target: $", FormatComma(target)>>,
                  <<"   Projected: $", FormatComma(projected)>>,
                  <<"   Gap: $", FormatComma(Gap(target, projected))>>,
                  <<>>,
                  <<"Next immediate steps: Check the top-3 escrow opportunities and reach out to the top pen-prospect donor this week.">> >>]

---------------------------------------------------------------------------
(* cache_tool and the module-level _CACHE (tools_no_code_extra.py) *)

\* dict.pop(key, None) / del: the dict without the key
DictDel(d, key) == [k \in DOMAIN d \ {key} |-> d[k]]

\* mutant of cache_tool: the TTL is enforced; an entry set with ttl_seconds = 0
\* has expired at once and is not kept
cache_tool_TtlEnforced(cache, action, key, value, ttl_seconds) ==
    LET action_l == Lower(action)
    IN  IF action_l = <<"g", "e", "t">>
        THEN [cache |-> cache,
              ret   |-> [hit |-> key \in DOMAIN cache, key |-> key,
                         value |-> Get(cache, key, None)]]
        ELSE IF action_l = <<"s", "e", "t">>
        THEN [cache |-> IF ttl_seconds = Some(0) THEN DictDel(cache, key)
                        ELSE DictSet(cache, key, value),
              ret   |-> [ok |-> TRUE, key |-> key]]
        ELSE IF action_l = <<"d", "e", "l", "e", "t", "e">>
        THEN [cache |-> DictDel(cache, key), ret |-> [ok |-> TRUE, key |-> key]]
        ELSE IF action_l = <<"c", "l", "e", "a", "r">>
        THEN [cache |-> <<>>, ret |-> [ok |-> TRUE, cleared |-> TRUE]]
        ELSE [cache |-> cache, ret |-> [error |-> <<"Unsupported action: ", action>>]]

\* cache_tool(action, key, value, ttl_seconds) on the dict `cache` (_CACHE): the
\* dict after the call and the returned payload; value and ttl_seconds are
\* optional (None by default), and the stored value is the optional itself
cache_tool(cache, action, key, value, ttl_seconds) ==
    LET action_l == Lower(action)
    IN  IF action_l = <<"g", "e", "t">>
        THEN [cache |-> cache,
              ret   |-> [hit |-> key \in DOMAIN cache, key |-> key,
                         value |-> Get(cache, key, None)]]
        ELSE IF action_l = <<"s", "e", "t">>
        THEN [cache |-> DictSet(cache, key, value), ret |-> [ok |-> TRUE, key |-> key]]
        ELSE IF action_l = <<"d", "e", "l", "e", "t", "e">>
        THEN [cache |-> DictDel(cache, key), ret |-> [ok |-> TRUE, key |-> key]]
        ELSE IF action_l = <<"c", "l", "e", "a", "r">>
        THEN [cache |-> <<>>, ret |-> [ok |-> TRUE, cleared |-> TRUE]]
        ELSE [cache |-> cache, ret |-> [error |-> <<"Unsupported action: ", action>>]]

---------------------------------------------------------------------------
(* The callers' inputs *)

\* datetime.now() at the call: midnight of 2023-09-15 (90 to 135 days later run
\* over the end of the year) and the last second of 2023-11-05 (90 to 135 days
\* later run over 29 February 2024)
Nows == {[day |-> 738778, sec |-> 0], [day |-> 738829, sec |-> 86399]}

KeywordLists ==
    {<<>>, <<"women leadership scholarships">>,
     <<"women leadership scholarships", "undergraduate education">>}

GrantRegions == {"NY, USA", ""}

\* Donor records as callers supply them: industry, region, last_gift_amount and
\* last_gift_date, each possibly missing (None). The date is either `ago` days
\* before today (negative: in the future) in ISO form, or the string `raw`.
DonorProfiles ==
    << [industry |-> Some(<<"T", "e", "c">>), region |-> Some(<<"N", "Y", ",", "U", "S">>),
        amount |-> Some(20000), ago |-> Some(100), raw |-> None],
       [industry |-> Some(<<"f", "i", "n">>), region |-> Some(<<"n", "y">>),
        amount |-> Some(15000), ago |-> Some(64), raw |-> None],
       [industry |-> Some(<<"F", "I", "N">>), region |-> Some(<<"C", "A">>),
        amount |-> Some(5000), ago |-> None,
        raw |-> Some(<<"2", "0", "2", "3", "-", "0", "2", "-", "3", "0">>)],
       [industry |-> None, region |-> None, amount |-> None, ago |-> None, raw |-> None],
       [industry |-> Some(<<"F", "i", "n">>), region |-> Some(<<"N", "Y", ",", "U", "S">>),
        amount |-> Some(1), ago |-> Some(-1), raw |-> None],
       [industry |-> Some(<<"T", "e", "c">>), region |-> Some(<<"c", "a">>),
        amount |-> Some(0), ago |-> None, raw |-> Some(<<>>)],
       [industry |-> Some(<<"T", "e", "c">>), region |-> Some(<<"n", "y">>),
        amount |-> Some(10), ago |-> Some(0), raw |-> None] >>

\* the donor lists: up to MaxDonors profiles, in any order, with repetitions
ProfileLists == UNION {[1..n -> 1..Len(DonorProfiles)] : n \in 0..MaxDonors}

\* industry_filter: None, an empty list, and a list of "FIn" and the empty string
IndustryFilters == {None, Some(<<>>), Some(<< <<"F", "I", "n">>, <<>> >>)}

\* region: None, the empty string, "Ny"
RegionFilters == {None, Some(<<>>), Some(<<"N", "y">>)}

TopNs == {-1, 0, 2, MaxTopN}

WithOpt(d, key, o) == IF o = None THEN d ELSE DictSet(d, key, TheValue(o))

\* the i-th donor record of a caller's list, built from profile p at time t
MakeDonor(p, i, t) ==
    LET date == IF p.ago # None THEN Some(IsoFormat(t.day - TheValue(p.ago))) ELSE p.raw
    IN  WithOpt(WithOpt(WithOpt(WithOpt(
            [name |-> <<"Donor ", i>>, type |-> "organization"],
            "industry", p.industry), "region", p.region),
            "last_gift_amount", p.amount), "last_gift_date", date)

\* Opportunity lists for the dashboard: each record has a deadline from this set
\* (None: the key is missing), not necessarily in order
OppDeadlines ==
    {None, Some(<<"2", "0", "2", "3", "-", "1", "2", "-", "1", "4">>),
     Some(<<"2", "0", "2", "4", "-", "0", "1", "-", "1", "3">>)}

DeadlineLists == UNION {[1..n -> OppDeadlines] : n \in 0..MaxOpps}

\* the i-th opportunity of a caller's list, with the fit score the caller attaches
MakeOpp(deadline, i) ==
    WithOpt([funder_name |-> <<"Example Foundation ", i>>, fit_score |-> 80 - (i - 1) * 10],
            "deadline", deadline)

\* the i-th donor prospect of a caller's list; the scores rise along the list
MakeProspect(i) ==
    [name |-> <<"Donor ", i>>, industry |-> <<"T", "e", "c">>,
     last_gift_amount |-> 1000 * i, potential_score |-> 50000 * i]

EventProjections ==
    {WithOpt(WithOpt([event_name |-> "Annual Scholarship Ball 2026", tickets_sold |-> 150,
                      sponsorships_sold |-> 3],
                     "target_revenue", target), "projected_revenue", projected) :
        target \in {None, Some(50000), Some(100000)}, projected \in {None, Some(65000)}}

\* Prospect records for the letter: name, industry, last_gift_amount and region,
\* each present or missing
LetterProspects ==
    {WithOpt(WithOpt(WithOpt(WithOpt(
        [type |-> "organization", potential_score |-> 1001000],
        "name", name), "industry", industry),
        "last_gift_amount", amount), "region", region) :
        name \in {None, Some("TechCorp Inc.")},
        industry \in {None, Some(<<"T", "e", "c">>)},
        amount \in {None, Some(20000)},
        region \in {None, Some(<<"N", "Y">>)}}

MissionStatements ==
    {"Empowering undergraduate women through leadership scholarships in NY", ""}

SponsorshipTiers == {"Platinum Sponsor", "Gold Sponsor"}

AwardIds == {"AWD-001", "AWD-002"}

TrackerActions ==
    {"register_award", "record_deposit", "allocate_funds", "report_outcome",
     "bogus", "Register_Award"}

\* details payloads: None, an empty dict, one field only, every field and more
TrackerDetails ==
    {None, Some(<<>>), Some([deposit_amount |-> 25000]),
     Some([amount_awarded |-> 25000, deposit_amount |-> 10000,
           allocation_details |-> "Scholarship recipient A", outcome_details |-> "3 scholars",
           note |-> "memo"])}

---------------------------------------------------------------------------
(* The calls of the core tools: one call per behaviour, on inputs the caller
   has just built *)

NoCall == [op |-> "none"]

Init ==
    /\ now \in Nows
    /\ dicts = <<>>
    /\ lists = <<>>
    /\ pc = "idle"
    /\ call = NoCall
    /\ ret = 0
    /\ log = <<>>
    /\ CACHE = <<>>
    /\ threads = <<>>
    /\ history = <<>>

GrantSearch ==
    /\ pc = "idle"
    /\ \E mission_keywords \in KeywordLists, region \in GrantRegions,
          max_results \in -1..MaxResults :
          LET r == grant_search(dicts, lists, mission_keywords, region, max_results, now)
          IN  /\ dicts' = r.dicts
              /\ lists' = r.lists
              /\ ret' = r.ret
              /\ call' = [op |-> "grant_search", mission_keywords |-> mission_keywords,
                          region |-> region, max_results |-> max_results,
                          dicts |-> dicts, lists |-> lists]
    /\ pc' = "returned"
    /\ UNCHANGED <<CACHE, threads, history, now, log>>

DonorProspect ==
    /\ pc = "idle"
    /\ \E profiles \in ProfileLists, industry_filter \in IndustryFilters,
          region \in RegionFilters, top_n \in TopNs :
          LET hd0 == dicts \o [i \in 1..Len(profiles) |->
                                  MakeDonor(DonorProfiles[profiles[i]], i, now)]
              hl0 == Append(lists, [i \in 1..Len(profiles) |-> Len(dicts) + i])
              past_donors == Len(lists) + 1
              r == donor_prospect(hd0, hl0, past_donors, industry_filter, region, top_n, now)
          IN  /\ dicts' = r.dicts
              /\ lists' = r.lists
              /\ ret' = r.ret
              /\ call' = [op |-> "donor_prospect", profiles |-> profiles,
                          past_donors |-> past_donors,
                          industry_filter |-> industry_filter, region |-> region,
                          top_n |-> top_n, dicts |-> hd0, lists |-> hl0]
    /\ pc' = "returned"
    /\ UNCHANGED <<CACHE, threads, history, now, log>>

\* the caller loads tools_no_code_extra, in an installation with or without
\* LangChain
ImportToolsExtra ==
    /\ pc = "idle"
    /\ \E langchain \in BOOLEAN :
          LET m == import_tools_no_code_extra(langchain)
          IN  /\ pc' = IF m = "TypeError" THEN "raised" ELSE "imported"
              /\ ret' = m
              /\ call' = [op |-> "import tools_no_code_extra", langchain |-> langchain]
    /\ UNCHANGED <<CACHE, threads, history, now, dicts, lists, log>>

OutreachLetter ==
    /\ pc = "imported"
    /\ \E prospect \in LetterProspects, mission_statement \in MissionStatements,
          sponsorship_tier \in SponsorshipTiers :
          LET event_name == "Annual Scholarship Ball 2026"
              r == generate_outreach_letter(prospect, mission_statement, event_name,
                                            sponsorship_tier)
          IN  /\ pc' = IF r.ok THEN "returned" ELSE "raised"
              /\ ret' = r.ret
              /\ call' = [op |-> "generate_outreach_letter", prospect |-> prospect,
                          mission_statement |-> mission_statement,
                          event_name |-> event_name,
                          sponsorship_tier |-> sponsorship_tier]
    /\ UNCHANGED <<CACHE, threads, history, now, dicts, lists, log>>

DashboardSummary ==
    /\ pc = "imported"
    /\ \E deadlines \in DeadlineLists, n_prospects \in 0..MaxProspects,
          projection \in EventProjections :
          LET n_opps == Len(deadlines)
              hd0 == dicts
                     \o [i \in 1..n_opps |-> MakeOpp(deadlines[i], i)]
                     \o [i \in 1..n_prospects |-> MakeProspect(i)]
                     \o <<projection>>
              hl0 == lists
                     \o << [i \in 1..n_opps |-> Len(dicts) + i],
                           [i \in 1..n_prospects |-> Len(dicts) + n_opps + i] >>
              opportunities == Len(lists) + 1
              donor_prospects == Len(lists) + 2
              event_projection == Len(dicts) + n_opps + n_prospects + 1
              r == dashboard_summary(hd0, hl0, opportunities, donor_prospects,
                                     event_projection)
          IN  /\ dicts' = r.dicts
              /\ lists' = r.lists
              /\ ret' = r.ret
              /\ call' = [op |-> "dashboard_summary", opportunities |-> opportunities,
                          donor_prospects |-> donor_prospects,
                          event_projection |-> event_projection,
                          dicts |-> hd0, lists |-> hl0]
    /\ pc' = "returned"
    /\ UNCHANGED <<CACHE, threads, history, now, log>>

Next ==
    \/ GrantSearch
    \/ DonorProspect
    \/ ImportToolsExtra
    \/ OutreachLetter
    \/ DashboardSummary

Spec == Init /\ [][Next]_vars

---------------------------------------------------------------------------
(* The award tracker: sequences of calls, direct or through the HTTP route *)

\* via: "call" for a direct call, "http" for POST /tools/deposit_tracker
LogEntry(via, award_id, action, details, result) ==
    [via |-> via, award_id |-> award_id, action |-> action, details |-> details,
     result |-> result]

DepositTracker ==
    /\ Len(log) < MaxCalls
    /\ \E award_id \in AwardIds, action \in TrackerActions, details \in TrackerDetails :
          log' = Append(log, LogEntry("call", award_id, action, details,
                                      deposit_tracker(award_id, action, details)))
    /\ UNCHANGED <<CACHE, threads, history, now, dicts, lists, pc, call, ret>>

\* a body {award_id, action, details}; details: null comes as None, and a body
\* without details is parsed to the same request
ApiDepositTracker ==
    /\ Len(log) < MaxCalls
    /\ \E award_id \in AwardIds, action \in TrackerActions, details \in TrackerDetails,
          omit \in BOOLEAN :
          /\ omit => details = None
          /\ LET req == IF omit THEN [award_id |-> award_id, action |-> action]
                        ELSE [award_id |-> award_id, action |-> action,
                              details |-> details]
             IN  log' = Append(log, LogEntry("http", award_id, action, details,
                                             api_deposit_tracker(req)))
    /\ UNCHANGED <<CACHE, threads, history, now, dicts, lists, pc, call, ret>>

InitTracker == Init /\ now.sec = 0

NextTracker == DepositTracker \/ ApiDepositTracker

SpecTracker == InitTracker /\ [][NextTracker]_vars

---------------------------------------------------------------------------
(* A session: a sequence of core calls by one caller, on one heap, while the
   clock moves on; log keeps each call with its arguments, the time and the
   result, all by value *)

\* the records of the list at address a
ListValue(hd, hl, a) == [k \in 1..Len(hl[a]) |-> hd[hl[a][k]]]

SessionEntry(op, args, t, result) ==
    [op |-> op, args |-> args, now |-> t, result |-> result]

\* the caller's donor lists; the records carry fixed dates (set when the clock
\* stood at RefNow), so the same list can be passed at different times
RefNow == [day |-> 738778, sec |-> 0]

SessionProfileLists == {<<1, 2>>, <<5, 4, 1>>}

SessionDeadlineLists ==
    {<< Some(<<"2", "0", "2", "4", "-", "0", "1", "-", "1", "3">>), None,
        Some(<<"2", "0", "2", "3", "-", "1", "2", "-", "1", "4">>) >>}

SessionGrantSearch ==
    /\ Len(log) < MaxSession
    /\ \E max_results \in {0, 2} :
          LET mission_keywords == <<"women leadership scholarships">>
              region == "NY, USA"
              r == grant_search(dicts, lists, mission_keywords, region, max_results, now)
          IN  /\ dicts' = r.dicts
              /\ lists' = r.lists
              /\ log' = Append(log, SessionEntry("grant_search",
                                    [mission_keywords |-> mission_keywords,
                                     region |-> region, max_results |-> max_results],
                                    now, ListValue(r.dicts, r.lists, r.ret)))
    /\ UNCHANGED <<CACHE, threads, history, now, pc, call, ret>>

SessionDonorProspect ==
    /\ Len(log) < MaxSession
    /\ \E profiles \in SessionProfileLists :
          LET hd0 == dicts \o [i \in 1..Len(profiles) |->
                                  MakeDonor(DonorProfiles[profiles[i]], i, RefNow)]
              hl0 == Append(lists, [i \in 1..Len(profiles) |-> Len(dicts) + i])
              past_donors == Len(lists) + 1
              r == donor_prospect(hd0, hl0, past_donors, None, Some(<<"N", "y">>), 2, now)
          IN  /\ dicts' = r.dicts
              /\ lists' = r.lists
              /\ log' = Append(log, SessionEntry("donor_prospect",
                                    [past_donors |-> ListValue(hd0, hl0, past_donors),
                                     industry_filter |-> None,
                                     region |-> Some(<<"N", "y">>), top_n |-> 2],
                                    now, ListValue(r.dicts, r.lists, r.ret)))
    /\ UNCHANGED <<CACHE, threads, history, now, pc, call, ret>>

SessionOutreachLetter ==
    /\ Len(log) < MaxSession
    /\ \E sponsorship_tier \in SponsorshipTiers :
          LET prospect == [name |-> "TechCorp Inc.", last_gift_amount |-> 20000,
                           potential_score |-> 1001000]
              mission_statement == ""
              event_name == "Annual Scholarship Ball 2026"
              r == generate_outreach_letter(prospect, mission_statement, event_name,
                                            sponsorship_tier)
          IN  /\ r.ok
              /\ log' = Append(log, SessionEntry("generate_outreach_letter",
                                    [prospect |-> prospect,
                                     mission_statement |-> mission_statement,
                                     event_name |-> event_name,
                                     sponsorship_tier |-> sponsorship_tier],
                                    now, r.ret))
    /\ UNCHANGED <<CACHE, threads, history, now, dicts, lists, pc, call, ret>>

SessionDashboardSummary ==
    /\ Len(log) < MaxSession
    /\ \E deadlines \in SessionDeadlineLists, n_prospects \in {0, 2} :
          LET n_opps == Len(deadlines)
              projection == [target_revenue |-> 100000, projected_revenue |-> 65000]
              hd0 == dicts
                     \o [i \in 1..n_opps |-> MakeOpp(deadlines[i], i)]
                     \o [i \in 1..n_prospects |-> MakeProspect(i)]
                     \o <<projection>>
              hl0 == lists
                     \o << [i \in 1..n_opps |-> Len(dicts) + i],
                           [i \in 1..n_prospects |-> Len(dicts) + n_opps + i] >>
              opportunities == Len(lists) + 1
              donor_prospects == Len(lists) + 2
              event_projection == Len(dicts) + n_opps + n_prospects + 1
              r == dashboard_summary(hd0, hl0, opportunities, donor_prospects,
                                     event_projection)
          IN  /\ dicts' = r.dicts
              /\ lists' = r.lists
              /\ log' = Append(log, SessionEntry("dashboard_summary",
                                    [opportunities |-> ListValue(hd0, hl0, opportunities),
                                     donor_prospects |-> ListValue(hd0, hl0, donor_prospects),
                                     event_projection |-> projection],
                                    now, r.ret))
    /\ UNCHANGED <<CACHE, threads, history, now, pc, call, ret>>

SessionDepositTracker ==
    /\ Len(log) < MaxSession
    /\ \E action \in {"register_award", "bogus"} :
          LET award_id == "AWD-001"
              details == Some([amount_awarded |-> 25000])
          IN  log' = Append(log, SessionEntry("deposit_tracker",
                               [award_id |-> award_id, action |-> action,
                                details |-> details],
                               now, deposit_tracker(award_id, action, details)))
    /\ UNCHANGED <<CACHE, threads, history, now, dicts, lists, pc, call, ret>>

\* the clock moves on between two calls
Tick ==
    /\ \E t \in Nows : t.day > now.day /\ now' = t
    /\ UNCHANGED <<CACHE, threads, history, dicts, lists, pc, call, ret, log>>

NextSession ==
    \/ SessionGrantSearch
    \/ SessionDonorProspect
    \/ SessionOutreachLetter
    \/ SessionDashboardSummary
    \/ SessionDepositTracker
    \/ Tick

SpecSession == Init /\ [][NextSession]_vars

---------------------------------------------------------------------------
(* The cache: sequences of cache_tool calls while the clock moves on *)

CacheKeys == {"k1", "k2"}

CacheCall(action, key, value, ttl_seconds) ==
    [action |-> action, key |-> key, value |-> value, ttl_seconds |-> ttl_seconds]

\* the calls made: get, set (of no value, of "v1" with a TTL of 0 seconds, of
\* "v2" with a TTL of a minute) and delete on either key, "Get" spelled with a
\* capital, clear, and the unsupported "purge"
CacheCalls ==
    {CacheCall(<<"g", "e", "t">>, key, None, None) : key \in CacheKeys}
    \cup {CacheCall(<<"s", "e", "t">>, key, None, None) : key \in CacheKeys}
    \cup {CacheCall(<<"s", "e", "t">>, key, Some("v1"), Some(0)) : key \in CacheKeys}
    \cup {CacheCall(<<"s", "e", "t">>, key, Some("v2"), Some(60)) : key \in CacheKeys}
    \cup {CacheCall(<<"d", "e", "l", "e", "t", "e">>, key, None, None) : key \in CacheKeys}
    \cup {CacheCall(<<"G", "e", "t">>, "k1", None, None),
          CacheCall(<<"c", "l", "e", "a", "r">>, "k1", None, None),
          CacheCall(<<"p", "u", "r", "g", "e">>, "k1", None, None)}

CacheTool ==
    /\ Len(log) < MaxCacheCalls
    /\ \E c \in CacheCalls :
          LET r == cache_tool(CACHE, c.action, c.key, c.value, c.ttl_seconds)
          IN  /\ CACHE' = r.cache
              /\ log' = Append(log, [action |-> c.action, key |-> c.key,
                                     value |-> c.value, ttl_seconds |-> c.ttl_seconds,
                                     now |-> now, result |-> r.ret])
    /\ UNCHANGED <<threads, history, now, dicts, lists, pc, call, ret>>

TickCache ==
    /\ \E t \in Nows : t.day > now.day /\ now' = t
    /\ UNCHANGED <<CACHE, threads, history, dicts, lists, pc, call, ret, log>>

NextCache == CacheTool \/ TickCache

SpecCache == Init /\ [][NextCache]_vars

---------------------------------------------------------------------------
(* Concurrent callers: each makes one core call on inputs of its own, on the one
   heap of the process. grant_search and donor_prospect run loop iteration by
   loop iteration, and the steps of the callers interleave in any order;
   meanwhile cache_tool is called too. The clock stands still. *)

Callers == 1..MaxCallers

IdleThread ==
    [pc |-> "idle", op |-> "none", args |-> <<>>, acc |-> 0, work |-> <<>>, k |-> 0,
     result |-> <<>>]

\* mutant of LocalList: one module-level list shared by the calls in progress
\* (the list of the lowest-numbered caller that has one)
LocalList_Global(ths, c) ==
    ths[CHOOSE b \in Callers : ths[b].acc # 0 /\ \A a \in Callers : ths[a].acc # 0 => b <= a].acc

\* the list that a call's loop appends to (`results`, `scored`): a local of the
\* call, made at its start
LocalList(ths, c) == ths[c].acc

\* keywords_str of grant_search
KeywordsStr(mission_keywords) ==
    IF mission_keywords # <<>> THEN Join(mission_keywords)
    ELSE <<"general mission alignment">>

\* the result of the call (op, args) run alone at time t, on a heap that holds
\* its arguments only; lists and records by value
RunAlone(op, args, t) ==
    CASE op = "grant_search" ->
            LET r == grant_search(<<>>, <<>>, args.mission_keywords, args.region,
                                  args.max_results, t)
            IN  ListValue(r.dicts, r.lists, r.ret)
      [] op = "donor_prospect" ->
            LET hd0 == args.past_donors
                hl0 == << [i \in 1..Len(hd0) |-> i] >>
                r == donor_prospect(hd0, hl0, 1, args.industry_filter, args.region,
                                    args.top_n, t)
            IN  ListValue(r.dicts, r.lists, r.ret)
      [] op = "dashboard_summary" ->
            LET n_opps == Len(args.opportunities)
                n_prospects == Len(args.donor_prospects)
                hd0 == args.opportunities \o args.donor_prospects
                       \o <<args.event_projection>>
                hl0 == << [i \in 1..n_opps |-> i],
                          [i \in 1..n_prospects |-> n_opps + i] >>
            IN  dashboard_summary(hd0, hl0, 1, 2, n_opps + n_prospects + 1).ret
      [] op = "deposit_tracker" ->
            deposit_tracker(args.award_id, args.action, args.details)
      [] op = "generate_outreach_letter" ->
            generate_outreach_letter(args.prospect, args.mission_statement,
                                     args.event_name, args.sponsorship_tier).ret

\* the inputs of caller c: every caller has its own
ConcMaxResults(c) == c - 1

ConcProfiles(c) == IF c % 2 = 1 THEN <<2, 1>> ELSE <<1, 5, 2>>

InitConc ==
    /\ now = RefNow
    /\ dicts = <<>>
    /\ lists = <<>>
    /\ pc = "idle"
    /\ call = NoCall
    /\ ret = 0
    /\ log = <<>>
    /\ CACHE = <<>>
    /\ threads = [c \in Callers |-> IdleThread]
    /\ history = <<>>

\* grant_search up to the loop: results = []
ConcGrantSearchStart(c) ==
    /\ threads[c].pc = "idle"
    /\ threads' = [threads EXCEPT ![c] =
          [pc |-> "grant_search loop", op |-> "grant_search",
           args |-> [mission_keywords |-> <<"women leadership scholarships">>,
                     region |-> <<"Region ", c>>, max_results |-> ConcMaxResults(c)],
           acc |-> Len(lists) + 1, work |-> <<>>, k |-> 0, result |-> <<>>]]
    /\ lists' = Append(lists, <<>>)
    /\ UNCHANGED <<CACHE, history, now, dicts, pc, call, ret, log>>

\* one iteration of the loop: results.append({...})
ConcGrantSearchIterate(c) ==
    LET th == threads[c]
    IN  /\ th.pc = "grant_search loop"
        /\ th.k < NumResults(th.args.max_results)
        /\ dicts' = Append(dicts, Opportunity(th.k, KeywordsStr(th.args.mission_keywords),
                                              th.args.region, now))
        /\ lists' = [lists EXCEPT ![LocalList(threads, c)] = Append(@, Len(dicts) + 1)]
        /\ threads' = [threads EXCEPT ![c].k = th.k + 1]
        /\ UNCHANGED <<CACHE, history, now, pc, call, ret, log>>

\* return results
ConcGrantSearchReturn(c) ==
    LET th == threads[c]
    IN  /\ th.pc = "grant_search loop"
        /\ th.k = NumResults(th.args.max_results)
        /\ threads' = [threads EXCEPT ![c].pc = "done",
                                      ![c].result = ListValue(dicts, lists, LocalList(threads, c))]
        /\ UNCHANGED <<CACHE, history, now, dicts, lists, pc, call, ret, log>>

\* the caller builds its donor list; donor_prospect up to the scoring loop: the
\* two filters, scored = []
ConcDonorProspectStart(c) ==
    /\ threads[c].pc = "idle"
    /\ LET profiles == ConcProfiles(c)
           hd0 == dicts \o [i \in 1..Len(profiles) |->
                               MakeDonor(DonorProfiles[profiles[i]], i, RefNow)]
           hl0 == Append(lists, [i \in 1..Len(profiles) |-> Len(dicts) + i])
           past_donors == Len(lists) + 1
           region == Some(<<"N", "y">>)
       IN  /\ dicts' = hd0
           /\ lists' = Append(hl0, <<>>)
           /\ threads' = [threads EXCEPT ![c] =
                 [pc |-> "donor_prospect loop", op |-> "donor_prospect",
                  args |-> [past_donors |-> ListValue(hd0, hl0, past_donors),
                            industry_filter |-> None, region |-> region, top_n |-> c],
                  acc |-> Len(hl0) + 1,
                  work |-> FilterDonors(hd0, hl0, past_donors, None, region),
                  k |-> 0, result |-> <<>>]]
    /\ UNCHANGED <<CACHE, history, now, pc, call, ret, log>>

\* one iteration of the scoring loop: item = dict(d), the score, scored.append
ConcDonorProspectIterate(c) ==
    LET th == threads[c]
    IN  /\ th.pc = "donor_prospect loop"
        /\ th.k < Len(th.work)
        /\ LET d == dicts[th.work[th.k + 1]]
           IN  dicts' = Append(dicts, DictSet(d, "potential_score", PotentialScore(d, now)))
        /\ lists' = [lists EXCEPT ![LocalList(threads, c)] = Append(@, Len(dicts) + 1)]
        /\ threads' = [threads EXCEPT ![c].k = th.k + 1]
        /\ UNCHANGED <<CACHE, history, now, pc, call, ret, log>>

\* the sort, the slice and the return
ConcDonorProspectReturn(c) ==
    LET th == threads[c]
    IN  /\ th.pc = "donor_prospect loop"
        /\ th.k = Len(th.work)
        /\ LET scored_sorted == SortByScore(dicts, lists[LocalList(threads, c)])
               top == TopSlice(scored_sorted, th.args.top_n)
           IN  threads' = [threads EXCEPT ![c].pc = "done",
                                         ![c].result = [i \in 1..Len(top) |-> dicts[top[i]]]]
        /\ UNCHANGED <<CACHE, history, now, dicts, lists, pc, call, ret, log>>

ConcDepositTracker(c) ==
    /\ threads[c].pc = "idle"
    /\ LET award_id == <<"AWD-", c>>
           action == "record_deposit"
           details == Some([deposit_amount |-> 1000 * c])
       IN  threads' = [threads EXCEPT ![c] =
              [pc |-> "done", op |-> "deposit_tracker",
               args |-> [award_id |-> award_id, action |-> action, details |-> details],
               acc |-> 0, work |-> <<>>, k |-> 0,
               result |-> deposit_tracker(award_id, action, details)]]
    /\ UNCHANGED <<CACHE, history, now, dicts, lists, pc, call, ret, log>>

ConcOutreachLetter(c) ==
    /\ threads[c].pc = "idle"
    /\ LET prospect == [name |-> "TechCorp Inc.", last_gift_amount |-> 1000 * c]
           r == generate_outreach_letter(prospect, "", "Annual Scholarship Ball 2026",
                                         "Platinum Sponsor")
       IN  /\ r.ok
           /\ threads' = [threads EXCEPT ![c] =
                 [pc |-> "done", op |-> "generate_outreach_letter",
                  args |-> [prospect |-> prospect, mission_statement |-> "",
                            event_name |-> "Annual Scholarship Ball 2026",
                            sponsorship_tier |-> "Platinum Sponsor"],
                  acc |-> 0, work |-> <<>>, k |-> 0, result |-> r.ret]]
    /\ UNCHANGED <<CACHE, history, now, dicts, lists, pc, call, ret, log>>

\* the caller builds its lists and projection; dashboard_summary
ConcDashboardSummary(c) ==
    /\ threads[c].pc = "idle"
    /\ \E deadlines \in SessionDeadlineLists :
          LET n_opps == Len(deadlines)
              n_prospects == c
              projection == [target_revenue |-> 50000 * c, projected_revenue |-> 65000]
              hd0 == dicts
                     \o [i \in 1..n_opps |-> MakeOpp(deadlines[i], i)]
                     \o [i \in 1..n_prospects |-> MakeProspect(i)]
                     \o <<projection>>
              hl0 == lists
                     \o << [i \in 1..n_opps |-> Len(dicts) + i],
                           [i \in 1..n_prospects |-> Len(dicts) + n_opps + i] >>
              opportunities == Len(lists) + 1
              donor_prospects == Len(lists) + 2
              event_projection == Len(dicts) + n_opps + n_prospects + 1
              r == dashboard_summary(hd0, hl0, opportunities, donor_prospects,
                                     event_projection)
          IN  /\ dicts' = r.dicts
              /\ lists' = r.lists
              /\ threads' = [threads EXCEPT ![c] =
                    [pc |-> "done", op |-> "dashboard_summary",
                     args |-> [opportunities |-> ListValue(hd0, hl0, opportunities),
                               donor_prospects |-> ListValue(hd0, hl0, donor_prospects),
                               event_projection |-> projection],
                     acc |-> 0, work |-> <<>>, k |-> 0, result |-> r.ret]]
    /\ UNCHANGED <<CACHE, history, now, pc, call, ret, log>>

\* someone calls cache_tool between two steps of the callers
ConcCacheTool ==
    /\ \E c \in {CacheCall(<<"s", "e", "t">>, "k1", Some("v1"), None),
                  CacheCall(<<"c", "l", "e", "a", "r">>, "k1", None, None)} :
          /\ CACHE' = cache_tool(CACHE, c.action, c.key, c.value, c.ttl_seconds).cache
          /\ CACHE' # CACHE
    /\ UNCHANGED <<threads, history, now, dicts, lists, pc, call, ret, log>>

NextConc ==
    \/ \E c \in Callers :
          \/ ConcGrantSearchStart(c)
          \/ ConcGrantSearchIterate(c)
          \/ ConcGrantSearchReturn(c)
          \/ ConcDonorProspectStart(c)
          \/ ConcDonorProspectIterate(c)
          \/ ConcDonorProspectReturn(c)
          \/ ConcDepositTracker(c)
          \/ ConcOutreachLetter(c)
          \/ ConcDashboardSummary(c)
    \/ ConcCacheTool

SpecConc == InitConc /\ [][NextConc]_vars

---------------------------------------------------------------------------
(* main.py: run_agent and the conversational loop. The agent is the language
   model with its tools: what invoke does is a choice among its outcomes. *)

HumanMessage(content) == [type |-> "human", content |-> content]

AIMessage(content) == [type |-> "ai", content |-> content]

Whitespace == {" ", "\t", "\n"}

RECURSIVE LStrip(_)
LStrip(s) == IF s # <<>> /\ Head(s) \in Whitespace THEN LStrip(Tail(s)) ELSE s

RECURSIVE RStrip(_)
RStrip(s) ==
    IF s # <<>> /\ s[Len(s)] \in Whitespace THEN RStrip(SubSeq(s, 1, Len(s) - 1)) ELSE s

\* str.strip()
Strip(s) == RStrip(LStrip(s))

\* agent.invoke({"messages": messages}): the messages of the result, or the
\* exception raised
invoke(messages, outcome) ==
    CASE outcome.kind = "reply" -> Return(Append(messages, AIMessage(outcome.content)))
      [] outcome.kind = "dummy" -> Return(<<AIMessage(outcome.content)>>)
      [] outcome.kind = "echo" -> Return(messages)
      [] outcome.kind = "empty" -> Return(<<>>)
      [] outcome.kind = "raise" -> Raise(outcome.content[1])

\* result["messages"][-1]
LastMessage(messages) ==
    IF messages = <<>> THEN Raise("list index out of range")
    ELSE Return(messages[Len(messages)])

ErrorMessage(e) ==
    AIMessage(<<"Error: ", e,
                "\n\nPlease try rephrasing your request or provide more specific details.">>)

\* mutant of run_agent: the user message is appended to the caller's list
run_agent_Appends(user_input, hist, outcome) ==
    LET messages == Append(hist, HumanMessage(user_input))
        result == invoke(messages, outcome)
        last == IF result.ok THEN LastMessage(result.ret) ELSE result
    IN  [history |-> messages,
         ret |-> IF last.ok THEN last.ret ELSE ErrorMessage(last.ret)]

\* run_agent: the caller's list after the call, and the message returned
run_agent(user_input, hist, outcome) ==
    LET messages == hist \o <<HumanMessage(user_input)>>
        result == invoke(messages, outcome)
        last == IF result.ok THEN LastMessage(result.ret) ELSE result
    IN  [history |-> hist,
         ret |-> IF last.ok THEN last.ret ELSE ErrorMessage(last.ret)]

\* lines typed at the prompt
InputLines ==
    {<<>>, <<" ", "\t">>,
     <<"q">>, <<" ", "Q", "u", "i", "t", "\n">>, <<"E", "X", "I", "T">>,
     <<"h", "i">>, <<" ", "q", "u", "i", "t", "s", " ">>, <<"q", " ", "q">>}

AgentOutcomes ==
    {[kind |-> "reply", content |-> <<"Here are three opportunities.">>],
     [kind |-> "reply", content |-> <<"Error: ", "said by the model">>],
     [kind |-> "dummy", content |-> <<"Dependencies not installed. Please install project dependencies to use the agent.">>],
     [kind |-> "echo", content |-> <<>>],
     [kind |-> "empty", content |-> <<>>],
     [kind |-> "raise", content |-> <<"Recursion limit of 50 reached">>],
     [kind |-> "raise", content |-> <<"">>]}

QuitCommands == {<<"q", "u", "i", "t">>, <<"e", "x", "i", "t">>, <<"q">>}

InitCli ==
    /\ now = RefNow
    /\ dicts = <<>>
    /\ lists = <<>>
    /\ pc = "prompt"
    /\ call = NoCall
    /\ ret = 0
    /\ log = <<>>
    /\ CACHE = <<>>
    /\ threads = <<>>
    /\ history = <<>>

\* one pass of the loop that ends it: quit, exit or q
CliQuit ==
    /\ pc = "prompt"
    /\ Len(log) < MaxInputs
    /\ \E line \in InputLines :
          LET user_input == Strip(line)
          IN  /\ Lower(user_input) \in QuitCommands
              /\ log' = Append(log, [line |-> line, outcome |-> None])
    /\ pc' = "ended"
    /\ UNCHANGED <<now, dicts, lists, call, ret, CACHE, threads, history>>

\* one pass of the loop on an empty line: continue
CliEmpty ==
    /\ pc = "prompt"
    /\ Len(log) < MaxInputs
    /\ \E line \in InputLines :
          LET user_input == Strip(line)
          IN  /\ Lower(user_input) \notin QuitCommands
              /\ user_input = <<>>
              /\ log' = Append(log, [line |-> line, outcome |-> None])
    /\ UNCHANGED <<now, dicts, lists, pc, call, ret, CACHE, threads, history>>

\* one pass of the loop with a request: run_agent, then the history grows
CliTurn ==
    /\ pc = "prompt"
    /\ Len(log) < MaxInputs
    /\ \E line \in InputLines : \E outcome \in AgentOutcomes :
          LET user_input == Strip(line)
              r == run_agent(user_input, history, outcome)
              response == r.ret
          IN  /\ Lower(user_input) \notin QuitCommands
              /\ user_input # <<>>
              /\ history' = r.history \o <<HumanMessage(user_input), response>>
              /\ ret' = response
              /\ log' = Append(log, [line |-> line, outcome |-> Some(outcome)])
    /\ UNCHANGED <<now, dicts, lists, pc, call, CACHE, threads>>

NextCli == CliQuit \/ CliEmpty \/ CliTurn

SpecCli == InitCli /\ [][NextCli]_vars

---------------------------------------------------------------------------
(* What a returned call looks like *)

Returned(op) == pc = "returned" /\ call.op = op

\* the records of the returned list, in order
RetItems == [k \in 1..Len(lists[ret]) |-> dicts[lists[ret][k]]]

---------------------------------------------------------------------------
(* Opportunity Generator: claims C1, C2, C3 *)

\* C1: grant_search returns exactly max(1, max_results) records: exactly
\* max_results of them when max_results >= 1 and exactly 1 when max_results <= 0,
\* whatever the keyword list (empty or not) and the region.
C1_ExactCount ==
    Returned("grant_search") =>
        /\ call.max_results >= 1 => Len(RetItems) = call.max_results
        /\ call.max_results <= 0 => Len(RetItems) = 1

\* C1 witness: a negative max_results with an empty keyword list gave one record
C1_Witness ==
    /\ Returned("grant_search")
    /\ call.max_results = -1
    /\ call.mission_keywords = <<>>
    /\ Len(RetItems) = 1

\* C2 as stated: for every max_results, positive, zero or negative, the length of
\* the returned list never exceeds max_results and is never negative.
C2_Original ==
    Returned("grant_search") =>
        /\ Len(RetItems) <= call.max_results
        /\ Len(RetItems) >= 0

\* C2 as amended: the length of the returned list never exceeds the requested
\* maximum once that is coerced to at least 1, max(1, max_results), and the list
\* is never empty; so it exceeds max_results itself exactly when max_results <= 0.
C2_Amended ==
    Returned("grant_search") =>
        /\ Len(RetItems) <= Max2(1, call.max_results)
        /\ Len(RetItems) > 0
        /\ (Len(RetItems) > call.max_results) = (call.max_results <= 0)

\* C2 witness: max_results = 0 gave a list longer than the requested maximum
C2_Witness ==
    /\ Returned("grant_search")
    /\ call.max_results = 0
    /\ Len(RetItems) > call.max_results

\* C3: the record at 0-based position i has award_size_min = 5000 + 1000 i,
\* award_size_max = 25000 + 2000 i and deadline = today + (90 + 15 i) days; so
\* the minimum, the maximum and the deadline (as an ISO string) strictly
\* increase from each record to the next, and min <= max in every record.
C3_PositionalFields ==
    Returned("grant_search") =>
        /\ \A k \in 1..Len(RetItems) :
              /\ RetItems[k].award_size_min = 5000 + 1000 * (k - 1)
              /\ RetItems[k].award_size_max = 25000 + 2000 * (k - 1)
              /\ FromIsoFormat(RetItems[k].deadline) = {now.day + 90 + 15 * (k - 1)}
              /\ RetItems[k].award_size_min <= RetItems[k].award_size_max
        /\ \A k \in 1..(Len(RetItems) - 1) :
              /\ RetItems[k].award_size_min < RetItems[k + 1].award_size_min
              /\ RetItems[k].award_size_max < RetItems[k + 1].award_size_max
              /\ StrLess(RetItems[k].deadline, RetItems[k + 1].deadline)

\* C3 witness: three or more records whose deadlines run over the end of a year
C3_Witness ==
    /\ Returned("grant_search")
    /\ Len(RetItems) >= 3
    /\ SubSeq(RetItems[1].deadline, 1, 4) # SubSeq(RetItems[3].deadline, 1, 4)

---------------------------------------------------------------------------
(* Donor Scorer: claims C4, C5, C6, C7 *)

\* the caller's donor records, in input order, as they were before the call
InDonors ==
    [p \in 1..Len(call.lists[call.past_donors]) |->
        call.dicts[call.lists[call.past_donors][p]]]

\* the input position of a returned record (names are unique: "Donor <position>")
Pos(item) == item.name[2]

RetPositions == {Pos(RetItems[k]) : k \in 1..Len(RetItems)}

EqIgnoreCase(a, b) ==
    Len(a) = Len(b) /\ \A i \in 1..Len(a) : LowerChar(a[i]) = LowerChar(b[i])

ContainsIgnoreCase(sub, s) ==
    \E k \in 0..(Len(s) - Len(sub)) :
        \A j \in 1..Len(sub) : LowerChar(s[k + j]) = LowerChar(sub[j])

FieldOrEmpty(d, key) == IF key \in DOMAIN d THEN d[key] ELSE <<>>

\* the claimed filter: a conjunction, each conjunct void when its filter does not
\* count as supplied
Survives(d, industrySupplied, regionSupplied) ==
    /\ industrySupplied =>
          \E s \in Range(TheValue(call.industry_filter)) :
              EqIgnoreCase(s, FieldOrEmpty(d, "industry"))
    /\ regionSupplied =>
          ContainsIgnoreCase(TheValue(call.region), FieldOrEmpty(d, "region"))

\* supplied = not None
SurvivorsOriginal ==
    {p \in DOMAIN InDonors :
        Survives(InDonors[p], call.industry_filter # None, call.region # None)}

\* supplied = not None and, for the industry list, not empty
Survivors ==
    {p \in DOMAIN InDonors :
        Survives(InDonors[p],
                 call.industry_filter # None /\ TheValue(call.industry_filter) # <<>>,
                 call.region # None)}

\* C4: the returned list is no longer than max(0, top_n) nor than the number of
\* surviving donors, is sorted by potential_score in non-increasing order with
\* equal scores in input order, and is exactly the first max(0, top_n) elements
\* of that ordering of all surviving donors: every survivor left out comes
\* after every returned donor in it.
C4_TopNStableDescending ==
    Returned("donor_prospect") =>
        LET R == RetItems
            n == Max2(0, call.top_n)
        IN  /\ Len(R) <= n
            /\ Len(R) <= Cardinality(Survivors)
            /\ Len(R) = Min2(n, Cardinality(Survivors))
            /\ call.top_n < 0 => R = <<>>
            /\ \A k \in 1..(Len(R) - 1) :
                  R[k].potential_score >= R[k + 1].potential_score
            /\ \A i, j \in 1..Len(R) :
                  (i < j /\ R[i].potential_score = R[j].potential_score)
                      => Pos(R[i]) < Pos(R[j])
            /\ Cardinality(RetPositions) = Len(R)
            /\ RetPositions \subseteq Survivors
            /\ \A p \in Survivors \ RetPositions : \A k \in 1..Len(R) :
                  LET sp == PotentialScore(InDonors[p], now)
                  IN  \/ R[k].potential_score > sp
                      \/ R[k].potential_score = sp /\ Pos(R[k]) < p

\* C4 witness: three donors survive, two are returned, with equal scores
C4_Witness ==
    /\ Returned("donor_prospect")
    /\ Cardinality(Survivors) = 3
    /\ Len(RetItems) = 2
    /\ RetItems[1].potential_score = RetItems[2].potential_score

\* what C5 says of the returned list, for a given set of surviving positions:
\* only survivors are returned, all of them when top_n allows, none when none
\* survives
FilterIs(S) ==
    /\ RetPositions \subseteq S
    /\ Max2(0, call.top_n) >= Cardinality(S) => RetPositions = S
    /\ S = {} => RetItems = <<>>

\* C5 as stated: a donor survives iff (no industry filter is supplied or its
\* industry is, case-insensitively, in the list) and (no region filter is
\* supplied or the filter string is a case-insensitive substring of its region),
\* a missing field counting as the empty string.
C5_Original == Returned("donor_prospect") => FilterIs(SurvivorsOriginal)

\* C5 as amended: the same, where an industry filter that is an empty list
\* counts as not supplied (every donor passes it).
C5_Amended == Returned("donor_prospect") => FilterIs(Survivors)

\* C5 witness: both filters are supplied and non-empty, some donor passes, some
\* donor fails, and all who pass are returned
C5_Witness ==
    /\ Returned("donor_prospect")
    /\ Truthy(call.industry_filter) /\ Truthy(call.region)
    /\ Survivors # {}
    /\ Survivors # DOMAIN InDonors
    /\ RetPositions = Survivors

\* C5 witness of the amended case: an empty industry list let every donor pass
C5_WitnessEmptyList ==
    /\ Returned("donor_prospect")
    /\ call.industry_filter = Some(<<>>)
    /\ RetPositions = DOMAIN InDonors
    /\ RetPositions # {}

Abs(x) == IF x < 0 THEN -x ELSE x

\* C6: potential_score (in hundredths) is 0.5 * last_gift_amount + recency_bonus
\* rounded to 2 decimals: with a date that parses, `ago` days back, the bonus is
\* 1000 / max(1, ago), so the score is within half a hundredth of
\* 50 amount + 100000 / max(1, ago), the bonus part lies in 0..1000 and is the
\* full 1000 for a gift of today or later; with the date missing, empty or
\* unparseable the score is exactly 50 amount. The score is non-negative for a
\* non-negative amount, and 20000 given 100 days ago scores 10010.00.
C6_ScoreFormula ==
    Returned("donor_prospect") =>
        \A k \in 1..Len(RetItems) :
            LET prof   == DonorProfiles[call.profiles[Pos(RetItems[k])]]
                amount == IF prof.amount = None THEN 0 ELSE TheValue(prof.amount)
                score  == RetItems[k].potential_score
            IN  /\ prof.ago # None =>
                      LET days == Max2(1, TheValue(prof.ago))
                      IN  /\ 2 * Abs(score * days - (50 * amount * days + 100000)) <= days
                          /\ score - 50 * amount \in 0..100000
                          /\ TheValue(prof.ago) <= 0 => score = 50 * amount + 100000
                /\ prof.ago = None => score = 50 * amount
                /\ amount >= 0 => score >= 0
                /\ (amount = 20000 /\ prof.ago = Some(100)) => score = 1001000

\* C6 witness: the example donor, a gift dated today or later and an unparseable
\* date were scored in one call
C6_Witness ==
    /\ Returned("donor_prospect")
    /\ \E k \in 1..Len(RetItems) :
          /\ Get(RetItems[k], "last_gift_amount", 0) = 20000
          /\ RetItems[k].potential_score = 1001000
    /\ \E k \in 1..Len(RetItems) :
          LET prof == DonorProfiles[call.profiles[Pos(RetItems[k])]]
          IN  /\ prof.ago # None
              /\ TheValue(prof.ago) <= 0
              /\ RetItems[k].potential_score = 50 * TheValue(prof.amount) + 100000
    /\ \E k \in 1..Len(RetItems) :
          /\ "last_gift_date" \in DOMAIN RetItems[k]
          /\ RetItems[k].last_gift_date # <<>>
          /\ FromIsoFormat(RetItems[k].last_gift_date) = {}

\* C7: no core operation modifies its caller-owned inputs. After donor_prospect
\* returns, the caller's list has the same records in the same order, every
\* record of the caller has the same keys and values (no potential_score key
\* was added), and the returned records are other objects than the caller's;
\* after dashboard_summary returns, the two lists (their order included) and
\* every record, the event projection among them, are as they were.
C7_InputsNotMutated ==
    (Returned("donor_prospect") \/ Returned("dashboard_summary")) =>
        /\ \A l \in DOMAIN call.lists : lists[l] = call.lists[l]
        /\ \A a \in DOMAIN call.dicts : dicts[a] = call.dicts[a]
        /\ Returned("donor_prospect") =>
              /\ \A a \in DOMAIN call.dicts : "potential_score" \notin DOMAIN dicts[a]
              /\ \A k \in 1..Len(RetItems) : "potential_score" \in DOMAIN RetItems[k]
              /\ Range(lists[ret]) \cap Range(lists[call.past_donors]) = {}
              /\ ret # call.past_donors

\* C7 witness: donor_prospect returned scored copies of two or more donors, in
\* another order than the caller's list
C7_Witness ==
    /\ Returned("donor_prospect")
    /\ Len(RetItems) >= 2
    /\ Pos(RetItems[1]) > Pos(RetItems[2])
    /\ Len(lists[call.past_donors]) = Len(call.lists[call.past_donors])

\* C7 witness for the dashboard: it returned for opportunities that were not in
\* deadline order
C7_WitnessDashboard ==
    /\ Returned("dashboard_summary")
    /\ \E i, j \in 1..Len(lists[call.opportunities]) :
          /\ i < j
          /\ StrLess(Get(dicts[lists[call.opportunities][j]], "deadline", <<>>),
                     Get(dicts[lists[call.opportunities][i]], "deadline", <<>>))

---------------------------------------------------------------------------
(* Award Lifecycle Tracker: claims C8, C9, C10 (under SpecTracker) *)

RecognizedActions == {"register_award", "record_deposit", "allocate_funds", "report_outcome"}

\* the table of the four recognized actions: status and echoed field
StatusOf(action) ==
    CASE action = "register_award" -> "Registered"
      [] action = "record_deposit" -> "Deposit Recorded"
      [] action = "allocate_funds" -> "Funds Allocated"
      [] action = "report_outcome" -> "Report Submitted"

PayloadOf(action) ==
    CASE action = "register_award" -> "amount_awarded"
      [] action = "record_deposit" -> "deposit_amount"
      [] action = "allocate_funds" -> "allocation_details"
      [] action = "report_outcome" -> "outcome_details"

\* the same-named entry of details, None when details is None or lacks it
EntryOf(details, field) ==
    IF details = None THEN None
    ELSE IF field \in DOMAIN TheValue(details) THEN Some(TheValue(details)[field])
    ELSE None

\* C8: for each recognized action the result holds the given award_id, the
\* status fixed by the action and exactly one payload field, named for the
\* action, whose value is the same-named entry of details or null; no other
\* field of details and no payload field of another action appears.
C8_RecognizedActions ==
    \A i \in DOMAIN log :
        log[i].action \in RecognizedActions =>
            /\ DOMAIN log[i].result = {"award_id", "status", PayloadOf(log[i].action)}
            /\ log[i].result.award_id = log[i].award_id
            /\ log[i].result.status = StatusOf(log[i].action)
            /\ log[i].result[PayloadOf(log[i].action)]
                  = EntryOf(log[i].details, PayloadOf(log[i].action))

\* C8 witness: a deposit recorded from details that hold all four payload fields
\* and more, and a report made with null details
C8_Witness ==
    /\ \E i \in DOMAIN log :
          /\ log[i].action = "record_deposit"
          /\ log[i].details # None
          /\ {"amount_awarded", "deposit_amount", "note"} \subseteq DOMAIN TheValue(log[i].details)
          /\ log[i].result.deposit_amount = Some(10000)
    /\ \E i \in DOMAIN log :
          /\ log[i].action = "report_outcome"
          /\ log[i].details = None
          /\ log[i].result.outcome_details = None

\* C9: every action string that is not exactly one of the four yields, without
\* failing, a record with the given award_id, status 'Unknown action' and a
\* details field equal to the input details verbatim (null when null).
C9_UnknownAction ==
    \A i \in DOMAIN log :
        log[i].action \notin RecognizedActions =>
            /\ DOMAIN log[i].result = {"award_id", "status", "details"}
            /\ log[i].result.award_id = log[i].award_id
            /\ log[i].result.status = "Unknown action"
            /\ log[i].result.details = log[i].details

\* C9 witness: a near miss of a recognized action with null details, and 'bogus'
\* with an empty dict
C9_Witness ==
    /\ \E i \in DOMAIN log :
          /\ log[i].action = "Register_Award"
          /\ log[i].details = None
          /\ log[i].result.details = None
    /\ \E i \in DOMAIN log :
          /\ log[i].action = "bogus"
          /\ log[i].details = Some(<<>>)
          /\ log[i].result.status = "Unknown action"

\* C10: the tracker keeps no memory. Whatever calls came before, direct or by
\* HTTP, a call's result is fixed by its own award_id, action and details: two
\* calls with the same three give the same result, the result carries the
\* call's own award_id and the status its own action fixes, every recognized
\* action is accepted whatever came before it, and record_deposit after
\* register_award for the same identifier returns 'Deposit Recorded' with
\* deposit_amount and without amount_awarded.
C10_NoMemory ==
    /\ \A i, j \in DOMAIN log :
          (/\ log[i].award_id = log[j].award_id
           /\ log[i].action = log[j].action
           /\ log[i].details = log[j].details) => log[i].result = log[j].result
    /\ \A i \in DOMAIN log :
          /\ log[i].result.award_id = log[i].award_id
          /\ log[i].result.status =
                (IF log[i].action \in RecognizedActions THEN StatusOf(log[i].action)
                 ELSE "Unknown action")
    /\ \A i, j \in DOMAIN log :
          (/\ i < j
           /\ log[i].award_id = log[j].award_id
           /\ log[i].action = "register_award"
           /\ log[j].action = "record_deposit") =>
              /\ log[j].result.status = "Deposit Recorded"
              /\ "deposit_amount" \in DOMAIN log[j].result
              /\ "amount_awarded" \notin DOMAIN log[j].result

\* C10 witness: an award was registered by a direct call with an amount, and a
\* deposit for the same identifier was then recorded over HTTP
C10_Witness ==
    /\ Len(log) >= 2
    /\ log[1].via = "call" /\ log[2].via = "http"
    /\ log[1].award_id = log[2].award_id
    /\ log[1].action = "register_award"
    /\ log[1].result.amount_awarded = Some(25000)
    /\ log[2].action = "record_deposit"
    /\ log[2].result.deposit_amount = Some(10000)

\* C10 witness of the free order: funds allocated for an identifier that was
\* never registered and has no deposit
C10_WitnessAnyOrder ==
    /\ Len(log) >= 1
    /\ log[1].action = "allocate_funds"
    /\ log[1].result.status = "Funds Allocated"

---------------------------------------------------------------------------
(* Dashboard Aggregator: claims C11, C12 *)

\* the caller's event projection, opportunities and donor prospects, as they
\* were before the call
InProjection == call.dicts[call.event_projection]

InOpps ==
    [i \in 1..Len(call.lists[call.opportunities]) |->
        call.dicts[call.lists[call.opportunities][i]]]

InProspects ==
    [i \in 1..Len(call.lists[call.donor_prospects]) |->
        call.dicts[call.lists[call.donor_prospects][i]]]

\* the number a text of digits, "," separators and a leading "-" stands for
RECURSIVE DigitsValue(_, _)
DigitsValue(s, acc) ==
    IF s = <<>> THEN acc
    ELSE IF Head(s) = "," THEN DigitsValue(Tail(s), acc)
    ELSE DigitsValue(Tail(s), 10 * acc + DigitVal(Head(s)))

NumberShown(s) ==
    IF s # <<>> /\ Head(s) = "-" THEN -DigitsValue(Tail(s), 0) ELSE DigitsValue(s, 0)

\* the lines of the summary that start with the given label
LinesLabelled(label) ==
    LET Is(line) == line # <<>> /\ line[1] = label
    IN  SelectSeq(ret, Is)

\* C11: the summary has one gap line; the number it shows (printed with ","
\* between groups of three digits) is exactly target_revenue - projected_revenue
\* with a missing key counted as 0; it is not clamped: it carries a minus sign
\* whenever the projection exceeds the target; target 100000 and projected
\* 65000 show 35,000, target 50000 and projected 65000 show -15,000.
C11_GapLine ==
    Returned("dashboard_summary") =>
        LET target    == IF "target_revenue" \in DOMAIN InProjection
                         THEN InProjection.target_revenue ELSE 0
            projected == IF "projected_revenue" \in DOMAIN InProjection
                         THEN InProjection.projected_revenue ELSE 0
            gaps      == LinesLabelled("   Gap: $")
        IN  /\ Len(gaps) = 1
            /\ Len(gaps[1]) = 2
            /\ NumberShown(gaps[1][2]) = target - projected
            /\ (projected > target) = (Head(gaps[1][2]) = "-")
            /\ (target = 100000 /\ projected = 65000) =>
                  gaps[1][2] = <<"3", "5", ",", "0", "0", "0">>
            /\ (target = 50000 /\ projected = 65000) =>
                  gaps[1][2] = <<"-", "1", "5", ",", "0", "0", "0">>

\* C11 witness: a projection of 65000 over a target of 50000 gave the gap line
\* -15,000
C11_Witness ==
    /\ Returned("dashboard_summary")
    /\ "target_revenue" \in DOMAIN InProjection
    /\ InProjection.target_revenue = 50000
    /\ "projected_revenue" \in DOMAIN InProjection
    /\ InProjection.projected_revenue = 65000
    /\ LinesLabelled("   Gap: $") = << <<"   Gap: $", <<"-", "1", "5", ",", "0", "0", "0">> >> >>

\* C11 witness of the default: a projection without target_revenue gave a gap
\* of minus the projected revenue
C11_WitnessMissingKey ==
    /\ Returned("dashboard_summary")
    /\ "target_revenue" \notin DOMAIN InProjection
    /\ "projected_revenue" \in DOMAIN InProjection
    /\ NumberShown(LinesLabelled("   Gap: $")[1][2]) = -InProjection.projected_revenue

\* the opportunity lines and the prospect lines of the summary, in order
OppLines == SelectSeq(ret, LAMBDA line : Len(line) = 7)

ProspectLines == SelectSeq(ret, LAMBDA line : Len(line) = 9)

\* the input position of a listed opportunity ("Example Foundation <position>")
\* or prospect ("Donor <position>")
LinePos(line) == TheValue(line[2])[2]

\* an opportunity's sort key
DeadlineKey(opp) == IF "deadline" \in DOMAIN opp THEN opp.deadline ELSE <<>>

\* opportunity i comes before opportunity j in the claimed order
DeadlineBefore(i, j) ==
    \/ StrLess(DeadlineKey(InOpps[i]), DeadlineKey(InOpps[j]))
    \/ DeadlineKey(InOpps[i]) = DeadlineKey(InOpps[j]) /\ i < j

\* C12: the summary reports the number of opportunities supplied; it lists
\* min(3, count) of them, each with its own deadline, in ascending order of the
\* deadline string with a missing deadline as the empty string and equal
\* deadlines in input order, and every opportunity left out comes after every
\* listed one in that order; it lists the first min(3, count) donor prospects in
\* input order, whatever their scores.
C12_CountAndLists ==
    Returned("dashboard_summary") =>
        LET listed == [k \in 1..Len(OppLines) |-> LinePos(OppLines[k])]
        IN  /\ LinesLabelled("Opportunities in pipeline: ")
                  = << <<"Opportunities in pipeline: ", Len(InOpps)>> >>
            /\ Len(listed) = Min2(3, Len(InOpps))
            /\ \A k \in 1..Len(listed) :
                  /\ listed[k] \in DOMAIN InOpps
                  /\ OppLines[k][4] = GetOpt(InOpps[listed[k]], "deadline")
            /\ \A k \in 1..(Len(listed) - 1) : DeadlineBefore(listed[k], listed[k + 1])
            /\ \A j \in DOMAIN InOpps \ Range(listed) :
                  \A k \in 1..Len(listed) : DeadlineBefore(listed[k], j)
            /\ Len(ProspectLines) = Min2(3, Len(InProspects))
            /\ \A k \in 1..Len(ProspectLines) :
                  /\ LinePos(ProspectLines[k]) = k
                  /\ ProspectLines[k][8] = Some(InProspects[k].potential_score)

\* C12 witness: four opportunities, one without a deadline and two with the same
\* one, not in deadline order, and four prospects with rising scores; three of
\* each are listed, the undated opportunity first
C12_Witness ==
    /\ Returned("dashboard_summary")
    /\ Len(InOpps) = 4
    /\ Len(OppLines) = 3
    /\ \E i, j \in DOMAIN InOpps :
          i < j /\ "deadline" \in DOMAIN InOpps[i] /\ "deadline" \in DOMAIN InOpps[j]
                /\ InOpps[i].deadline = InOpps[j].deadline
    /\ "deadline" \notin DOMAIN InOpps[4]
    /\ LinePos(OppLines[1]) = 4
    /\ OppLines[1][4] = None
    /\ Len(InProspects) = 4
    /\ Len(ProspectLines) = 3
    /\ InProspects[1].potential_score < InProspects[4].potential_score

---------------------------------------------------------------------------
(* Outreach Composer: claim C13 *)

\* C13: every call of generate_outreach_letter returns a letter, whichever of
\* name, industry, last_gift_amount and region the prospect lacks: the name slot
\* holds the name or 'Valued Supporter', the industry and region slots the field
\* or the empty string, the amount slot the amount (0 when missing, printed with
\* "," between groups of three digits), and the mission statement, the event
\* name and the sponsorship tier stand in the letter as given.
C13_LetterDefaults ==
    call.op = "generate_outreach_letter" =>
        LET p == call.prospect
        IN  /\ pc = "returned"
            /\ Len(ret) = 21
            /\ ret[2] = (IF "name" \in DOMAIN p THEN p.name ELSE "Valued Supporter")
            /\ ret[5] = call.mission_statement
            /\ ret[7] = call.sponsorship_tier
            /\ ret[9] = call.event_name
            /\ ret[11] = (IF "industry" \in DOMAIN p THEN p.industry ELSE <<>>)
            /\ NumberShown(ret[13])
                  = (IF "last_gift_amount" \in DOMAIN p THEN p.last_gift_amount ELSE 0)
            /\ "last_gift_amount" \notin DOMAIN p => ret[13] = <<"0">>
            /\ ret[15] = (IF "region" \in DOMAIN p THEN p.region ELSE <<>>)

\* C13 witness: a prospect with none of the four fields got a letter to 'Valued
\* Supporter' with an empty region
C13_Witness ==
    /\ Returned("generate_outreach_letter")
    /\ DOMAIN call.prospect \cap {"name", "industry", "last_gift_amount", "region"} = {}
    /\ ret[2] = "Valued Supporter"
    /\ ret[13] = <<"0">>
    /\ ret[15] = <<>>

\* C13 witness of the example: a prospect missing only the region
C13_WitnessNoRegion ==
    /\ Returned("generate_outreach_letter")
    /\ DOMAIN call.prospect \cap {"name", "industry", "last_gift_amount", "region"}
          = {"name", "industry", "last_gift_amount"}
    /\ ret[2] = "TechCorp Inc."
    /\ ret[13] = <<"2", "0", ",", "0", "0", "0">>
    /\ ret[15] = <<>>

---------------------------------------------------------------------------
(* Totality of the core: claim C14 *)

\* C14 as stated: no attempt to call a core operation ends in an exception;
\* every one returns a value. (The tracker's calls are the entries of log, each
\* of which holds a returned record.)
C14_Total == pc # "raised"

\* C14, the failing case: without LangChain, loading the module that defines
\* generate_outreach_letter and dashboard_summary raised TypeError before
\* either could be called
C14_Witness ==
    /\ pc = "raised"
    /\ call.op = "import tools_no_code_extra"
    /\ ~call.langchain
    /\ ret = "TypeError"

\* C14, what does hold: the loading of tools_no_code_extra without LangChain is
\* the only exception; once the module is loaded, every call of the modelled
\* inputs (fields missing, dates missing, empty or malformed, empty lists, empty
\* or null filters, zero or negative max_results and top_n) returns.
C14_BodiesTotal ==
    /\ pc = "raised" => (call.op = "import tools_no_code_extra" /\ ~call.langchain)
    /\ call.op \in {"grant_search", "donor_prospect", "generate_outreach_letter",
                     "dashboard_summary"} => pc = "returned"

---------------------------------------------------------------------------
(* Determinism of the core: claim C15 (under SpecSession) *)

TimeDependent == {"grant_search", "donor_prospect"}

\* C15: two calls of the same operation with equal arguments and the same value
\* of now return equal results, whatever core calls were made before them and
\* between them; for deposit_tracker, generate_outreach_letter and
\* dashboard_summary equal arguments alone give equal results, at any time.
C15_Deterministic ==
    \A i, j \in DOMAIN log :
        (/\ i < j
         /\ log[i].op = log[j].op
         /\ log[i].args = log[j].args
         /\ (log[i].op \in TimeDependent => log[i].now = log[j].now))
            => log[i].result = log[j].result

\* C15 witness: the same donor_prospect call was made twice at the same time
\* with another core operation called in between, and gave a non-empty result
C15_Witness ==
    /\ Len(log) = 3
    /\ log[1].op = "donor_prospect" /\ log[3].op = "donor_prospect"
    /\ log[2].op = "grant_search"
    /\ log[1].args = log[3].args
    /\ log[1].now = log[3].now
    /\ Len(log[1].result) = 2
    /\ log[1].result = log[3].result

\* C15 witness of the part of the clock: the same grant_search call and the same
\* donor_prospect call, made at another time, gave another result
C15_WitnessTime ==
    /\ \E i, j \in DOMAIN log :
          /\ log[i].op = "grant_search" /\ log[j].op = "grant_search"
          /\ log[i].args = log[j].args
          /\ log[i].now # log[j].now
          /\ log[i].result # log[j].result

C15_WitnessTimeDonors ==
    /\ \E i, j \in DOMAIN log :
          /\ log[i].op = "donor_prospect" /\ log[j].op = "donor_prospect"
          /\ log[i].args = log[j].args
          /\ log[i].now # log[j].now
          /\ log[i].result # log[j].result

---------------------------------------------------------------------------
(* The cache stub: claim C17 (under SpecCache) *)

ActionIs(i, name) == Lower(log[i].action) = name

\* call i writes the entry of key: a set or delete of that key, or a clear
Touches(i, key) ==
    \/ (ActionIs(i, <<"s", "e", "t">>) \/ ActionIs(i, <<"d", "e", "l", "e", "t", "e">>))
          /\ log[i].key = key
    \/ ActionIs(i, <<"c", "l", "e", "a", "r">>)

\* the calls before call n that touch key
TouchesBefore(n, key) == {j \in 1..(n - 1) : Touches(j, key)}

Latest(S) == CHOOSE j \in S : \A k \in S : k <= j

\* after the calls before call n, key holds a value: the latest call touching
\* it is a set
Held(n, key) ==
    /\ TouchesBefore(n, key) # {}
    /\ ActionIs(Latest(TouchesBefore(n, key)), <<"s", "e", "t">>)

\* C17: a get reports hit = true with the value of the latest set of its key
\* iff that set exists and no delete of the key and no clear came after it, and
\* otherwise hit = false with a null value, whatever ttl_seconds was given and
\* however much time has passed; delete returns ok also for an absent key; the
\* keys of the cache are those whose latest write is a set, so a set or delete
\* of one key leaves the others as they were; an unsupported action returns an
\* error payload and changes nothing.
C17_CacheSemantics ==
    /\ \A i \in DOMAIN log :
          /\ ActionIs(i, <<"g", "e", "t">>) =>
                /\ log[i].result.key = log[i].key
                /\ log[i].result.hit = Held(i, log[i].key)
                /\ log[i].result.value =
                      (IF Held(i, log[i].key)
                       THEN log[Latest(TouchesBefore(i, log[i].key))].value
                       ELSE None)
          /\ ActionIs(i, <<"d", "e", "l", "e", "t", "e">>) =>
                log[i].result = [ok |-> TRUE, key |-> log[i].key]
          /\ ActionIs(i, <<"s", "e", "t">>) =>
                log[i].result = [ok |-> TRUE, key |-> log[i].key]
          /\ ActionIs(i, <<"c", "l", "e", "a", "r">>) =>
                log[i].result = [ok |-> TRUE, cleared |-> TRUE]
          /\ ActionIs(i, <<"p", "u", "r", "g", "e">>) =>
                DOMAIN log[i].result = {"error"}
    /\ \A key \in CacheKeys :
          /\ (key \in DOMAIN CACHE) = Held(Len(log) + 1, key)
          /\ key \in DOMAIN CACHE =>
                CACHE[key] = log[Latest(TouchesBefore(Len(log) + 1, key))].value
    /\ DOMAIN CACHE \subseteq CacheKeys

\* C17 witness: a value set with ttl_seconds = 0 was still there after the clock
\* had moved on, with a delete of another, absent key in between
C17_Witness ==
    /\ Len(log) = 3
    /\ ActionIs(1, <<"s", "e", "t">>)
    /\ log[1].ttl_seconds = Some(0) /\ log[1].value = Some("v1")
    /\ ActionIs(2, <<"d", "e", "l", "e", "t", "e">>) /\ log[2].key # log[1].key
    /\ log[2].result.ok
    /\ ActionIs(3, <<"g", "e", "t">>) /\ log[3].key = log[1].key
    /\ log[3].now.day > log[1].now.day
    /\ log[3].result.hit
    /\ log[3].result.value = Some("v1")

\* C17 witness of the miss: a get after set and clear, and an unsupported action
\* that left the cache as it was
C17_WitnessMiss ==
    /\ Len(log) = 3
    /\ ActionIs(1, <<"s", "e", "t">>)
    /\ ActionIs(2, <<"c", "l", "e", "a", "r">>)
    /\ ActionIs(3, <<"g", "e", "t">>) /\ log[3].key = log[1].key
    /\ ~log[3].result.hit
    /\ log[3].result.value = None

C17_WitnessUnsupported ==
    /\ Len(log) = 2
    /\ ActionIs(1, <<"s", "e", "t">>)
    /\ ActionIs(2, <<"p", "u", "r", "g", "e">>)
    /\ "error" \in DOMAIN log[2].result
    /\ log[1].key \in DOMAIN CACHE

---------------------------------------------------------------------------
(* Concurrent callers: claim C16 (under SpecConc) *)

\* C16: however the steps of concurrent core calls interleave, on one heap and
\* with cache_tool called in between, every finished call has returned what the
\* same call returns when run alone on its own arguments; no lock is taken. The
\* module-level _CACHE holds only what cache_tool put there.
C16_Isolation ==
    /\ \A c \in Callers :
          threads[c].pc = "done" =>
              threads[c].result = RunAlone(threads[c].op, threads[c].args, now)
    /\ CACHE \in {<<>>, [k1 |-> Some("v1")]}

\* C16, the cache half as a step property: no step of a core call changes _CACHE
C16_CacheUntouched == [][threads' # threads => CACHE' = CACHE]_vars

\* C16 witness: two donor_prospect calls ran with their scoring loops
\* interleaved (the scored copies of the two callers alternate on the heap),
\* the cache was written meanwhile, and both returned a non-empty list
C16_Witness ==
    /\ MaxCallers >= 2
    /\ threads[1].pc = "done" /\ threads[1].op = "donor_prospect"
    /\ threads[2].pc = "done" /\ threads[2].op = "donor_prospect"
    /\ Len(threads[1].result) > 0 /\ Len(threads[2].result) > 0
    /\ \E i, j \in DOMAIN lists[threads[1].acc] : \E m \in DOMAIN lists[threads[2].acc] :
          /\ lists[threads[1].acc][i] < lists[threads[2].acc][m]
          /\ lists[threads[2].acc][m] < lists[threads[1].acc][j]
    /\ CACHE # <<>>

\* C16 witness with two operations: a grant_search ran between the steps of a
\* dashboard_summary caller and a donor_prospect call in progress
C16_WitnessMixed ==
    /\ MaxCallers >= 2
    /\ threads[1].pc = "donor_prospect loop" /\ threads[1].k = 1
    /\ threads[2].pc = "done" /\ threads[2].op = "grant_search"
    /\ Len(threads[2].result) = NumResults(ConcMaxResults(2))
    /\ threads[2].acc > threads[1].acc

---------------------------------------------------------------------------
(* The conversational loop: claim C18 (under SpecCli) *)

\* the lines that end the loop: quit, exit or q in any case, spaces around
EndsLoop(line) ==
    line \in {<<"q">>, <<" ", "Q", "u", "i", "t", "\n">>, <<"E", "X", "I", "T">>}

\* the lines that hold nothing but white space
Blank(line) == \A i \in DOMAIN line : line[i] \in {" ", "\t", "\n"}

\* the typed lines that were requests, in input order
Requests == SelectSeq(log, LAMBDA e : ~EndsLoop(e.line) /\ ~Blank(e.line))

\* the text of a request line, without the white space around it
Trimmed(line) ==
    LET idx == {i \in DOMAIN line : line[i] \notin {" ", "\t", "\n"}}
        lo == CHOOSE i \in idx : \A j \in idx : i <= j
        hi == CHOOSE i \in idx : \A j \in idx : j <= i
    IN  SubSeq(line, lo, hi)

\* C18: after any sequence of typed lines the history holds, in input order,
\* two messages per request (a line that is neither blank nor quit/exit/q): the
\* user message, then what run_agent returned, which is the last message of the
\* agent's result or, when the invocation failed, an AI message whose content
\* starts with "Error: "; run_agent never raised and never changed the list; a
\* blank line added nothing; the loop has ended exactly when the last line was
\* quit, exit or q.
C18_History ==
    /\ Len(history) = 2 * Len(Requests)
    /\ \A i \in 1..Len(Requests) :
          LET e == Requests[i]
              outcome == TheValue(e.outcome)
              response == history[2 * i]
          IN  /\ history[2 * i - 1] = HumanMessage(Trimmed(e.line))
              /\ CASE outcome.kind \in {"reply", "dummy"} ->
                        response = AIMessage(outcome.content)
                   [] outcome.kind = "echo" -> response = history[2 * i - 1]
                   [] outcome.kind = "empty" ->
                        /\ response.type = "ai"
                        /\ response.content[1] = "Error: "
                        /\ response.content[2] = "list index out of range"
                   [] outcome.kind = "raise" ->
                        /\ response.type = "ai"
                        /\ response.content[1] = "Error: "
                        /\ response.content[2] = outcome.content[1]
    /\ pc \in {"prompt", "ended"}
    /\ pc = "ended" <=> (log # <<>> /\ EndsLoop(log[Len(log)].line))
    /\ \A i \in 1..(Len(log) - 1) : ~EndsLoop(log[i].line)

\* C18 witness: a blank line, a request whose invocation raised, a request that
\* was answered, and the history holds the four messages
C18_Witness ==
    /\ Len(log) >= 3
    /\ Blank(log[1].line)
    /\ ~Blank(log[2].line) /\ TheValue(log[2].outcome).kind = "raise"
    /\ ~Blank(log[3].line) /\ ~EndsLoop(log[3].line)
    /\ TheValue(log[3].outcome).kind = "reply"
    /\ Len(history) = 4
    /\ history[2].content[1] = "Error: "

\* C18 witness of the end: a request, then quit with spaces and capitals
C18_WitnessQuit ==
    /\ pc = "ended"
    /\ Len(log) = 2
    /\ log[2].line = <<" ", "Q", "u", "i", "t", "\n">>
    /\ Len(history) = 2

\* C18 witness of an empty result: the agent returned no messages
C18_WitnessEmptyResult ==
    /\ Len(history) = 2
    /\ TheValue(log[1].outcome).kind = "empty"
    /\ history[2].content[2] = "list index out of range"

=============================================================================
